---- MODULE Spec2Model ----
(***************************************************************************)
(* Spending tracker: ingestion of card / checking CSV exports (utils.py,   *)
(* merge.py), the batch merge with cross-file deduplication (merge.py),    *)
(* the merchant-name cleanup, the date-range presets, the subscription     *)
(* detector and the insights engine (utils.py).                            *)
(*                                                                         *)
(* Text is modelled as a sequence of one-character strings, so that        *)
(* lower(), title(), strip(), substring tests and the regular expressions  *)
(* of clean_merchant are computed character by character.  Money is an     *)
(* integer number of currency units; a date in a ledger is a day number.   *)
(***************************************************************************)
EXTENDS Integers, Sequences, FiniteSets, TLC

VARIABLES
    data,       \* data/ : source file name -> [columns, rows] (the CSV exports)
    frame,      \* the outcome of the last load_card call (SpecIngest)
    merged,     \* data/merged.csv : NoFile, or the rows merge.main wrote
    combined,   \* merge.main's `combined` frame of the last run, after cumcount (line 140)
    deduped,    \* merge.main's `combined` frame of the last run, after drop_duplicates (line 145)
    rerun,      \* outcome of running the dedup steps of merge.main on the rows of merged.csv
    merchant,   \* a raw merchant description (SpecClean)
    cleaned,    \* the results of applying clean_merchant to it once, twice
    today,      \* datetime.date.today() as date_filter reads it (SpecDate)
    min_date,   \* the earliest date of the ledger
    max_date,   \* the latest date of the ledger
    choice,     \* the preset chosen in the date dropdown
    range,      \* what compute_date_range returned for it
    before,     \* the choice and the range of the resolution before this one
    df,         \* the expense slice of the ledger handed to a report (SpecSubs, SpecInsights)
    subs,       \* what detect_subscriptions returned for it
    insights,   \* what compute_insights returned for it
    account,    \* an account identifier handed to _get_config (SpecConfig)
    config,     \* the entry _get_config returned for it
    cache,      \* the entry st.cache_data holds for load_all (SpecCache)
    ledger,     \* what the last call of load_all returned to its caller
    writer,     \* merge.main's to_csv in progress: the rows not yet written to merged.csv
    metrics     \* the metrics app.py computed on its last run (SpecApp)

fileVars == <<data, frame, merged, combined, deduped, rerun>>
cleanVars == <<merchant, cleaned>>
dateVars == <<today, min_date, max_date, choice, range, before>>
reportVars == <<df, subs, insights>>
appVars == <<account, config, cache, ledger, writer, metrics>>
vars == <<fileVars, cleanVars, dateVars, reportVars, appVars>>

----------------------------------------------------------------------------
(* Characters and Python's str methods                                     *)

UpperLetters == <<"A", "B", "C", "D", "E", "F", "G", "H", "I", "J", "K", "L", "M", "N", "O", "P", "Q", "R", "S", "T", "U", "V", "W", "X", "Y", "Z">>
LowerLetters == <<"a", "b", "c", "d", "e", "f", "g", "h", "i", "j", "k", "l", "m", "n", "o", "p", "q", "r", "s", "t", "u", "v", "w", "x", "y", "z">>
Digits == {"0", "1", "2", "3", "4", "5", "6", "7", "8", "9"}
Whitespace == {" "}

\* the characters the model uses, in code-point order (Python compares str by code point)
CodePoints == <<" ", "#", "*", ".", "0", "1", "2", "3", "4", "5", "6", "7", "8", "9">> \o UpperLetters \o <<"_">> \o LowerLetters

Chars == {CodePoints[i] : i \in 1..Len(CodePoints)}

\* ord(c), up to an order-preserving renumbering
OrdOf == [c \in Chars |-> CHOOSE i \in 1..Len(CodePoints) : CodePoints[i] = c]
Ord(c) == OrdOf[c]

UpperSet == {UpperLetters[i] : i \in 1..Len(UpperLetters)}
LowerSet == {LowerLetters[i] : i \in 1..Len(LowerLetters)}
IsUpperChar(c) == c \in UpperSet
IsLowerChar(c) == c \in LowerSet
IsCased(c) == IsUpperChar(c) \/ IsLowerChar(c)

LowerOf == [c \in Chars |-> IF c \in UpperSet THEN LowerLetters[CHOOSE i \in 1..Len(UpperLetters) : UpperLetters[i] = c] ELSE c]
UpperOf == [c \in Chars |-> IF c \in LowerSet THEN UpperLetters[CHOOSE i \in 1..Len(LowerLetters) : LowerLetters[i] = c] ELSE c]
LowerChar(c) == LowerOf[c]
UpperChar(c) == UpperOf[c]

\* the sequence with the elements f[1], ..., f[Len(f)], in explicit form
AsSeq(f) == <<>> \o f

\* str.lower()
Lower(s) == AsSeq([i \in 1..Len(s) |-> LowerChar(s[i])])

\* str.title(): a cased character is upper-cased when the character before it is
\* not cased (or it is the first one), lower-cased otherwise
Title(s) == AsSeq([i \in 1..Len(s) |-> IF i > 1 /\ IsCased(s[i - 1]) THEN LowerChar(s[i]) ELSE UpperChar(s[i])])

\* str.isupper(): at least one cased character and no lower-case one
IsUpper(s) == (\E i \in 1..Len(s) : IsUpperChar(s[i])) /\ ~(\E i \in 1..Len(s) : IsLowerChar(s[i]))

\* str.strip()
Strip(s) ==
    IF \A i \in 1..Len(s) : s[i] \in Whitespace THEN <<>>
    ELSE LET a == CHOOSE i \in 1..Len(s) : s[i] \notin Whitespace /\ \A j \in 1..(i - 1) : s[j] \in Whitespace
             b == CHOOSE i \in 1..Len(s) : s[i] \notin Whitespace /\ \A j \in (i + 1)..Len(s) : s[j] \in Whitespace
         IN SubSeq(s, a, b)

\* `kw in s`
Contains(s, kw) == \E i \in 0..(Len(s) - Len(kw)) : SubSeq(s, i + 1, i + Len(kw)) = kw

\* s < t for str (lexicographic by code point)
RECURSIVE StrLess(_, _)
StrLess(s, t) ==
    IF t = <<>> THEN FALSE
    ELSE IF s = <<>> THEN TRUE
    ELSE IF Head(s) = Head(t) THEN StrLess(Tail(s), Tail(t))
    ELSE Ord(Head(s)) < Ord(Head(t))

----------------------------------------------------------------------------
(* Card format config (utils.py / merge.py, kept in sync)                  *)

default == <<"d", "e", "f", "a", "u", "l", "t">>
checking == <<"c", "h", "e", "c", "k", "i", "n", "g">>
Uncategorized == <<"U", "n", "c", "a", "t", "e", "g", "o", "r", "i", "z", "e", "d">>
Transfer == <<"T", "r", "a", "n", "s", "f", "e", "r">>
Income == <<"I", "n", "c", "o", "m", "e">>
Credit == <<"C", "r", "e", "d", "i", "t">>
Debit == <<"D", "e", "b", "i", "t">>

\* the keys of CARD_CONFIG, in the dict's insertion order
ConfigKeys == <<default, checking>>

CARD_CONFIG(key) ==
    IF key = checking
    THEN [date_col |-> "Posting Date", desc_col |-> "Description", cat_col |-> "None",
          amount_col |-> "Amount", amount_sign |-> 1, is_checking |-> TRUE,
          details_col |-> "Details"]
    ELSE [date_col |-> "Transaction Date", desc_col |-> "Description", cat_col |-> "Category",
          amount_col |-> "Amount", amount_sign |-> -1, is_checking |-> FALSE,
          details_col |-> "Details"]

CC_PAYMENT_KEYWORDS == {
    <<"a", "u", "t", "o", "p", "a", "y">>,
    <<"p", "a", "y", "m", "e", "n", "t", " ", "t", "h", "a", "n", "k", " ", "y", "o", "u">>,
    <<"o", "n", "l", "i", "n", "e", " ", "p", "a", "y", "m", "e", "n", "t">>}

TRANSFER_KEYWORDS == {
    <<"s", "c", "h", "w", "a", "b">>,
    <<"m", "o", "n", "e", "y", "l", "i", "n", "k">>,
    <<"f", "i", "d", "e", "l", "i", "t", "y">>,
    <<"v", "a", "n", "g", "u", "a", "r", "d">>,
    <<"t", "d", "a", "m", "e", "r", "i", "t", "r", "a", "d", "e">>,
    <<"e", "*", "t", "r", "a", "d", "e">>,
    <<"e", "t", "r", "a", "d", "e">>,
    <<"r", "o", "b", "i", "n", "h", "o", "o", "d">>,
    <<"c", "o", "i", "n", "b", "a", "s", "e">>,
    <<"w", "e", "a", "l", "t", "h", "f", "r", "o", "n", "t">>,
    <<"b", "e", "t", "t", "e", "r", "m", "e", "n", "t">>,
    <<"a", "c", "o", "r", "n", "s">>,
    <<"s", "t", "a", "s", "h", " ", "i", "n", "v", "e", "s", "t">>}

\* the loop of _get_config without its `if key != "default"`
DefaultBySubstring(card_key) ==
    IF \E i \in 1..Len(ConfigKeys) : ConfigKeys[i] = card_key
    THEN CARD_CONFIG(card_key)
    ELSE IF \E i \in 1..Len(ConfigKeys) : Contains(card_key, ConfigKeys[i])
         THEN LET i == CHOOSE i \in 1..Len(ConfigKeys) :
                          /\ Contains(card_key, ConfigKeys[i])
                          /\ \A j \in 1..(i - 1) : ~Contains(card_key, ConfigKeys[j])
              IN CARD_CONFIG(ConfigKeys[i])
         ELSE CARD_CONFIG(default)

\* _get_config: exact key, else the first non-default key contained in card_key, else default
_get_config(card_key) ==
    IF \E i \in 1..Len(ConfigKeys) : ConfigKeys[i] = card_key
    THEN CARD_CONFIG(card_key)
    ELSE IF \E i \in 1..Len(ConfigKeys) : ConfigKeys[i] # default /\ Contains(card_key, ConfigKeys[i])
         THEN LET i == CHOOSE i \in 1..Len(ConfigKeys) :
                          /\ ConfigKeys[i] # default /\ Contains(card_key, ConfigKeys[i])
                          /\ \A j \in 1..(i - 1) : ~(ConfigKeys[j] # default /\ Contains(card_key, ConfigKeys[j]))
              IN CARD_CONFIG(ConfigKeys[i])
         ELSE CARD_CONFIG(default)

----------------------------------------------------------------------------
(* Ingestion: _load_checking and load_card                                 *)

\* a source file is [columns: the CSV header, rows: its records]; a record maps
\* each column to its cell.  A ledger row has the fields the loaders write.
NoError == "ok"
KeyError == "KeyError"
ValueError == "ValueError"

Abs(x) == IF x < 0 THEN -x ELSE x

\* r.get(details_col, ""), then str(...).strip().title()
DetailsMarker(r, columns, cfg) ==
    Title(Strip(IF cfg.details_col \in columns THEN r[cfg.details_col] ELSE <<>>))

\* is_credit = details == "Credit" or amount_raw > 0
CreditWhenNotNegative(details, amount_raw) == details = Credit \/ amount_raw >= 0
is_credit(details, amount_raw) == details = Credit \/ amount_raw > 0

\* any(kw in desc.lower() for kw in KEYWORDS)
MatchesKeyword(desc, keywords) == \E kw \in keywords : Contains(Lower(desc), kw)

\* the row is skipped: a card payment that is not a credit
Suppressed(desc, credit) == ~credit /\ MatchesKeyword(desc, CC_PAYMENT_KEYWORDS)

\* the if / elif / else that assigns record_type and category
IncomeBeforeTransfer(desc, credit) ==
    IF credit THEN [record_type |-> "income", category |-> Income]
    ELSE IF MatchesKeyword(desc, TRANSFER_KEYWORDS) THEN [record_type |-> "transfer", category |-> Transfer]
    ELSE [record_type |-> "expense", category |-> Uncategorized]
Classify(desc, credit) ==
    IF MatchesKeyword(desc, TRANSFER_KEYWORDS) THEN [record_type |-> "transfer", category |-> Transfer]
    ELSE IF credit THEN [record_type |-> "income", category |-> Income]
    ELSE [record_type |-> "expense", category |-> Uncategorized]

\* "Amount": abs(amount_raw)
SignedAmount(amount_raw) == amount_raw
StoredAmount(amount_raw) == Abs(amount_raw)

\* a date cell as pd.read_csv hands it on: the number of the day its text denotes,
\* Blank for an empty cell or one of the NA words ("N/A", "null", ...), which
\* read_csv turns into NaN, and Garbled for text that is no date
Blank == 0
Garbled == -1
NaT == -2

\* pd.to_datetime: the day of a well-formed cell, NaT for NaN; it raises a ValueError
\* on text that is no date
to_datetime(cell) == IF cell = Blank THEN NaT ELSE cell
NoDateIn(cell) == cell = Garbled

\* the body of the loop of _load_checking for one record: <<>> when the record is
\* skipped, else the one row appended
CheckingRow(r, columns, card_name, cfg) ==
    LET desc == Strip(r[cfg.desc_col])
        amount_raw == r[cfg.amount_col]
        credit == is_credit(DetailsMarker(r, columns, cfg), amount_raw)
        cls == Classify(desc, credit)
    IN IF Suppressed(desc, credit) THEN <<>>
       ELSE << [Date |-> to_datetime(r[cfg.date_col]), Description |-> desc,
                Category |-> cls.category, Amount |-> StoredAmount(amount_raw),
                Card |-> card_name, RecordType |-> cls.record_type] >>

RECURSIVE CheckingRows(_, _, _, _)
CheckingRows(rows, columns, card_name, cfg) ==
    IF rows = <<>> THEN <<>>
    ELSE CheckingRow(Head(rows), columns, card_name, cfg) \o CheckingRows(Tail(rows), columns, card_name, cfg)

\* _load_checking: a KeyError when a column a record is read through is missing
_load_checking(raw, card_name, cfg) ==
    LET columns == raw.columns
        appended(r) == ~Suppressed(Strip(r[cfg.desc_col]),
                                   is_credit(DetailsMarker(r, columns, cfg), r[cfg.amount_col]))
    IN IF raw.rows # <<>> /\ ~({cfg.desc_col, cfg.amount_col} \subseteq columns)
       THEN [err |-> KeyError, rows |-> <<>>]
       ELSE IF cfg.date_col \notin columns /\ \E i \in 1..Len(raw.rows) : appended(raw.rows[i])
       THEN [err |-> KeyError, rows |-> <<>>]
       ELSE IF \E i \in 1..Len(raw.rows) : appended(raw.rows[i]) /\ NoDateIn(raw.rows[i][cfg.date_col])
       THEN [err |-> ValueError, rows |-> <<>>]
       ELSE [err |-> NoError, rows |-> CheckingRows(raw.rows, columns, card_name, cfg)]

\* df = df[df["Amount"] > 0]
KeepNonNegative(amount) == amount >= 0
KeepCharge(amount) == amount > 0

\* df["Amount"] = raw[amount_col] * amount_sign
CardAmount(amount_raw, cfg) == amount_raw * cfg.amount_sign

\* the credit-card path of load_card for one record
CardRow(r, columns, card_name, cfg) ==
    [Date |-> to_datetime(r[cfg.date_col]), Description |-> Strip(r[cfg.desc_col]),
     Category |-> IF cfg.cat_col \in columns THEN Strip(r[cfg.cat_col]) ELSE Uncategorized,
     Amount |-> CardAmount(r[cfg.amount_col], cfg),
     Card |-> card_name, RecordType |-> "expense"]

KeptCardRow(row) == KeepCharge(row.Amount)

\* load_card(path): path is [stem, ext], raw the file's content
load_card(path, raw) ==
    LET card_key == Lower(path.stem)
        cfg == _get_config(card_key)
        card_name == Title(path.stem)
    IN IF cfg.is_checking THEN _load_checking(raw, card_name, cfg)
       ELSE IF ~({cfg.date_col, cfg.desc_col, cfg.amount_col} \subseteq raw.columns)
       THEN [err |-> KeyError, rows |-> <<>>]
       ELSE IF \E i \in 1..Len(raw.rows) : NoDateIn(raw.rows[i][cfg.date_col])
       THEN [err |-> ValueError, rows |-> <<>>]
       ELSE [err |-> NoError,
             rows |-> SelectSeq(AsSeq([i \in 1..Len(raw.rows) |-> CardRow(raw.rows[i], raw.columns, card_name, cfg)]),
                                KeptCardRow)]

----------------------------------------------------------------------------
(* Source files                                                             *)

csv == <<"c", "s", "v">>
visa_a == [stem |-> <<"v", "i", "s", "a", "_", "a">>, ext |-> csv]
visa_b == [stem |-> <<"v", "i", "s", "a", "_", "b">>, ext |-> csv]
VISA_A == [stem |-> <<"V", "I", "S", "A", "_", "A">>, ext |-> csv]
my_checking == [stem |-> <<"m", "y", "_", "c", "h", "e", "c", "k", "i", "n", "g">>, ext |-> csv]
MY_CHECKING == [stem |-> <<"M", "Y", "_", "C", "H", "E", "C", "K", "I", "N", "G">>, ext |-> csv]

\* the headers of a Chase card export (with and without its Category column) and
\* of a Chase checking export, as far as the loaders read them
CardColumns == {"Transaction Date", "Description", "Category", "Amount"}
CardColumnsNoCategory == {"Transaction Date", "Description", "Amount"}
CheckingColumns == {"Details", "Posting Date", "Description", "Amount"}

Shop == <<"S", "h", "o", "p">>
Food == <<"F", "o", "o", "d">>

CardRecord(date, desc, cat, amount) ==
    [c \in CardColumns |->
        CASE c = "Transaction Date" -> date [] c = "Description" -> desc
          [] c = "Category" -> cat [] OTHER -> amount]

CardRecordNoCategory(date, desc, amount) ==
    [c \in CardColumnsNoCategory |->
        CASE c = "Transaction Date" -> date [] c = "Description" -> desc [] OTHER -> amount]

CheckingRecord(details, date, desc, amount) ==
    [c \in CheckingColumns |->
        CASE c = "Details" -> details [] c = "Posting Date" -> date
          [] c = "Description" -> desc [] OTHER -> amount]

SeqsUpTo(S, n) == UNION {[1..k -> S] : k \in 0..n}

\* a date is [year, month, day]
Date(y, m, d) == [year |-> y, month |-> m, day |-> d]
NoDate == Date(0, 0, 0)
NoRange == [start |-> NoDate, end |-> NoDate]
NoResolve == [choice |-> "", range |-> NoRange]

\* the values of the variables a specification does not use
NoFiles == data = <<>> /\ frame = [loaded |-> FALSE] /\ merged = [exists |-> FALSE]
           /\ combined = <<>> /\ deduped = <<>> /\ rerun = [ran |-> FALSE]
NoMerchant == merchant = <<>> /\ cleaned = <<>>
NoDates == today = NoDate /\ min_date = NoDate /\ max_date = NoDate
           /\ choice = "" /\ range = NoRange /\ before = NoResolve
NotRun == [ran |-> FALSE]
NoReports == df = <<>> /\ subs = NotRun /\ insights = NotRun
NoEntry == [cached |-> FALSE]
NotCalled == [called |-> FALSE, calls |-> 0]
Idle == [busy |-> FALSE]
NoApp == account = <<>> /\ config = NotRun /\ cache = NoEntry /\ ledger = NotCalled
         /\ writer = Idle /\ metrics = NotRun

NotLoaded == [loaded |-> FALSE]
NoFile == [exists |-> FALSE]
NoRun == [ran |-> FALSE]

----------------------------------------------------------------------------
(* SpecIngest: one export is dropped into data/ and load_card reads it      *)

MaxIngestRows == 2

IngestNames == {visa_a, my_checking}
IngestAmounts == {-5, 0, 5}
IngestCardDescs == {Shop, <<" ">> \o Shop}
IngestCheckingDescs == {
    <<" ">> \o Shop,
    <<"A", "u", "t", "o", "P", "a", "y">>,
    <<"S", "C", "H", "W", "A", "B">>,
    <<"S", "c", "h", "w", "a", "b", " ", "a", "u", "t", "o", "p", "a", "y">>}
IngestDetails == {Debit, <<" ", "c", "r", "e", "d", "i", "t">>, <<>>}

IngestFiles ==
    [columns : {CardColumns},
     rows : SeqsUpTo({CardRecord(1, d, Food, a) : d \in IngestCardDescs, a \in IngestAmounts}, MaxIngestRows)]
    \cup
    [columns : {CardColumnsNoCategory},
     rows : SeqsUpTo({CardRecordNoCategory(1, d, a) : d \in IngestCardDescs, a \in IngestAmounts}, MaxIngestRows)]
    \cup
    [columns : {CheckingColumns},
     rows : SeqsUpTo({CheckingRecord(m, 1, d, a) : m \in IngestDetails, d \in IngestCheckingDescs, a \in IngestAmounts},
                     MaxIngestRows)]

IngestInit ==
    /\ \E p \in IngestNames, raw \in IngestFiles : data = (p :> raw)
    /\ frame = NotLoaded
    /\ merged = NoFile
    /\ combined = <<>>
    /\ deduped = <<>>
    /\ rerun = NoRun
    /\ NoMerchant
    /\ NoDates
    /\ NoReports
    /\ NoApp

\* a caller runs load_card(p) on a file of data/
LoadCard(p) ==
    /\ frame' = [loaded |-> TRUE, path |-> p] @@ load_card(p, data[p])
    /\ UNCHANGED <<data, merged, combined, deduped, rerun, cleanVars, dateVars, reportVars, appVars>>

IngestNext == \E p \in DOMAIN data : LoadCard(p)

SpecIngest == IngestInit /\ [][IngestNext]_vars

\* SpecBadDates: the file holds date cells that are blank or no date
DateCells == {1, Blank, Garbled}
Autopay == <<"A", "u", "t", "o", "p", "a", "y">>

BadDateFiles ==
    [columns : {CardColumns},
     rows : SeqsUpTo({CardRecord(d, Shop, Food, -5) : d \in DateCells}, MaxIngestRows)]
    \cup
    [columns : {CheckingColumns},
     rows : SeqsUpTo({CheckingRecord(Debit, d, desc, -5) : d \in DateCells, desc \in {Shop, Autopay}},
                     MaxIngestRows)]

BadDatesInit ==
    /\ \E p \in IngestNames, raw \in BadDateFiles : data = (p :> raw)
    /\ frame = NotLoaded
    /\ merged = NoFile
    /\ combined = <<>>
    /\ deduped = <<>>
    /\ rerun = NoRun
    /\ NoMerchant
    /\ NoDates
    /\ NoReports
    /\ NoApp

SpecBadDates == BadDatesInit /\ [][IngestNext]_vars

----------------------------------------------------------------------------
(* Properties of ingestion (SpecIngest)                                     *)

Loaded == frame.loaded /\ frame.err = NoError
LoadedRaw == data[frame.path]
LoadedAsChecking == _get_config(Lower(frame.path.stem)).is_checking

\* the rules of the checking classifier as the specification words them
CaseInsensitiveHit(desc, keywords) ==
    \E kw \in keywords : \E k \in 0..(Len(desc) - Len(kw)) :
        \A j \in 1..Len(kw) : LowerChar(desc[k + j]) = LowerChar(kw[j])
MarkerOf(rec) == IF "Details" \in DOMAIN rec THEN Lower(Strip(rec["Details"])) ELSE <<>>
SaidCredit(rec) == MarkerOf(rec) = Lower(Credit) \/ rec["Amount"] > 0
SaidCardPayment(rec) == CaseInsensitiveHit(rec["Description"], CC_PAYMENT_KEYWORDS)
SaidTransfer(rec) == CaseInsensitiveHit(rec["Description"], TRANSFER_KEYWORDS)
SaidOmitted(rec) == ~SaidCredit(rec) /\ SaidCardPayment(rec)
SaidClass(rec) ==
    IF SaidTransfer(rec) THEN <<"transfer", Transfer>>
    ELSE IF SaidCredit(rec) THEN <<"income", Income>>
    ELSE <<"expense", Uncategorized>>

RECURSIVE SaidClasses(_)
SaidClasses(recs) ==
    IF recs = <<>> THEN <<>>
    ELSE (IF SaidOmitted(Head(recs)) THEN <<>> ELSE <<SaidClass(Head(recs))>>) \o SaidClasses(Tail(recs))

NotOmitted(rec) == ~SaidOmitted(rec)
\* where the i-th record of the file, when not omitted, lands in the output
OutIndex(recs, i) == Cardinality({j \in 1..i : ~SaidOmitted(recs[j])})

\* C4: every ingested row has amount >= 0: a checking row stores the absolute value
\* of its raw amount, a row kept by the credit-card path has amount > 0.
C4_AmountNonNegative ==
    Loaded =>
        /\ \A i \in 1..Len(frame.rows) : frame.rows[i].Amount >= 0
        /\ LoadedAsChecking =>
              LET kept == SelectSeq(LoadedRaw.rows, NotOmitted)
              IN /\ Len(frame.rows) = Len(kept)
                 /\ \A i \in 1..Len(kept) : frame.rows[i].Amount = Abs(kept[i]["Amount"])
        /\ ~LoadedAsChecking => \A i \in 1..Len(frame.rows) : frame.rows[i].Amount > 0

\* a checking file with a negative and a positive raw amount, both ingested
C4_Witness ==
    /\ Loaded /\ LoadedAsChecking /\ Len(frame.rows) = 2
    /\ LoadedRaw.rows[1]["Amount"] < 0 /\ LoadedRaw.rows[2]["Amount"] > 0

\* C5: _load_checking classifies every row by the first matching rule: card payment
\* and not credit -> omitted; transfer keyword -> transfer / Transfer; credit ->
\* income / Income; otherwise expense / Uncategorized.
C5_ClassificationOrder ==
    Loaded /\ LoadedAsChecking =>
        [i \in 1..Len(frame.rows) |-> <<frame.rows[i].RecordType, frame.rows[i].Category>>]
            = SaidClasses(LoadedRaw.rows)

\* a debit with a card-payment and a transfer keyword was omitted, and a credit
\* with a transfer keyword became a transfer
C5_Witness ==
    /\ Loaded /\ LoadedAsChecking /\ Len(LoadedRaw.rows) = 2 /\ Len(frame.rows) = 1
    /\ SaidOmitted(LoadedRaw.rows[1]) /\ SaidTransfer(LoadedRaw.rows[1])
    /\ SaidCredit(LoadedRaw.rows[2]) /\ frame.rows[1].RecordType = "transfer"

DebitNoKeyword(rec) ==
    MarkerOf(rec) = Lower(Debit) /\ ~SaidCardPayment(rec) /\ ~SaidTransfer(rec)
IsPlainExpense(row) == row.RecordType = "expense" /\ row.Category = Uncategorized

\* C6 as claimed: a 'Debit' row matching no keyword is an Uncategorized expense for
\* every raw amount.
C6_DebitIsExpenseAnyAmount ==
    Loaded /\ LoadedAsChecking =>
        \A i \in 1..Len(LoadedRaw.rows) :
            DebitNoKeyword(LoadedRaw.rows[i]) =>
                IsPlainExpense(frame.rows[OutIndex(LoadedRaw.rows, i)])

\* C6 amended: a 'Debit' row matching no keyword whose raw amount is not positive is
\* an Uncategorized expense.
C6_DebitIsExpense ==
    Loaded /\ LoadedAsChecking =>
        \A i \in 1..Len(LoadedRaw.rows) :
            DebitNoKeyword(LoadedRaw.rows[i]) /\ LoadedRaw.rows[i]["Amount"] <= 0 =>
                IsPlainExpense(frame.rows[OutIndex(LoadedRaw.rows, i)])

\* a 'Debit' row with raw amount 0 and one with a negative raw amount were ingested
C6_Witness ==
    /\ Loaded /\ LoadedAsChecking /\ Len(LoadedRaw.rows) = 2 /\ Len(frame.rows) = 2
    /\ DebitNoKeyword(LoadedRaw.rows[1]) /\ LoadedRaw.rows[1]["Amount"] = 0
    /\ DebitNoKeyword(LoadedRaw.rows[2]) /\ LoadedRaw.rows[2]["Amount"] < 0

SaidSign == _get_config(Lower(frame.path.stem)).amount_sign
IsCharge(rec) == rec["Amount"] * SaidSign > 0

\* C7: for a non-checking schema load_card outputs exactly the rows with
\* raw_amount * amount_sign > 0, in order, with that amount, record_type expense and,
\* without a category column, category 'Uncategorized'.
C7_CardRows ==
    Loaded /\ ~LoadedAsChecking =>
        LET charges == SelectSeq(LoadedRaw.rows, IsCharge)
        IN /\ Len(frame.rows) = Len(charges)
           /\ \A i \in 1..Len(charges) :
                /\ frame.rows[i].Amount = charges[i]["Amount"] * SaidSign
                /\ frame.rows[i].Date = charges[i]["Transaction Date"]
                /\ frame.rows[i].Description = Strip(charges[i]["Description"])
                /\ frame.rows[i].RecordType = "expense"
                /\ "Category" \notin LoadedRaw.columns => frame.rows[i].Category = Uncategorized

\* a card export without a Category column holding a refund and a charge
C7_Witness ==
    /\ Loaded /\ ~LoadedAsChecking /\ "Category" \notin LoadedRaw.columns
    /\ Len(LoadedRaw.rows) = 2 /\ Len(frame.rows) = 1
    /\ LoadedRaw.rows[1]["Amount"] > 0 /\ LoadedRaw.rows[2]["Amount"] < 0
    /\ frame.rows[1].Category = Uncategorized

\* the date cells of the loaded file, read through the date column of its schema
DateCellsOf(path, raw) ==
    LET date_col == _get_config(Lower(path.stem)).date_col
    IN IF date_col \in raw.columns THEN {raw.rows[i][date_col] : i \in 1..Len(raw.rows)} ELSE {}

\* C26: a file that holds a blank or malformed date cell is not ingested: load_card
\* fails with an error, and no row comes out of it with a null date.
C26_BadDateFails ==
    (frame.loaded /\ DateCellsOf(frame.path, LoadedRaw) \cap {Blank, Garbled} # {}) =>
        /\ frame.err # NoError
        /\ \A i \in 1..Len(frame.rows) : frame.rows[i].Date # NaT

----------------------------------------------------------------------------
(* merge.main: the batch merge with cross-file deduplication                *)

\* p.name
Name(p) == p.stem \o <<".">> \o p.ext

merged_csv == <<"m", "e", "r", "g", "e", "d", ".", "c", "s", "v">>

\* glob("*.[Cc][Ss][Vv]") minus merged.csv
IsSource(p) == Lower(p.ext) = csv /\ Lower(Name(p)) # merged_csv

\* sorted(paths): ascending by name, the files being in one directory
RECURSIVE SortedPaths(_)
SortedPaths(S) ==
    IF S = {} THEN <<>>
    ELSE LET first == CHOOSE p \in S : \A q \in S \ {p} : StrLess(Name(p), Name(q))
         IN <<first>> \o SortedPaths(S \ {first})

\* frame["_source"] = p.name
Tagged(rows, source) == AsSeq([i \in 1..Len(rows) |-> rows[i] @@ [_source |-> source]])

\* pd.concat(frames, ignore_index=True) over the loaded, tagged frames
RECURSIVE ConcatFrames(_, _)
ConcatFrames(csvs, files) ==
    IF csvs = <<>> THEN <<>>
    ELSE Tagged(load_card(Head(csvs), files[Head(csvs)]).rows, Name(Head(csvs)))
         \o ConcatFrames(Tail(csvs), files)

\* the subset of drop_duplicates without its "RecordType"
KeyWithoutRecordType(r) == <<r.Date, r.Description, r.Amount, r.Card, r._seq>>

\* the columns a group of cumcount is keyed by, and the subset of drop_duplicates
SourceKey(r) == <<r._source, r.Date, r.Description, r.Amount, r.Card, r.RecordType>>
SeqKey(r) == <<r.Date, r.Description, r.Amount, r.Card, r.RecordType, r._seq>>

\* groupby([...]).cumcount(): the number of earlier rows of the same group
CountAll(frm, i) == 0
CumCount(frm, i) == Cardinality({j \in 1..(i - 1) : SourceKey(frm[j]) = SourceKey(frm[i])})

WithSeq(frm) == AsSeq([i \in 1..Len(frm) |-> frm[i] @@ [_seq |-> CumCount(frm, i)]])

\* drop_duplicates(subset=[...]) keeps the first row of every subset value
IsFirst(frm, i) == \A j \in 1..(i - 1) : SeqKey(frm[j]) # SeqKey(frm[i])

RECURSIVE DropFrom(_, _)
DropFrom(frm, i) ==
    IF i > Len(frm) THEN <<>>
    ELSE (IF IsFirst(frm, i) THEN <<frm[i]>> ELSE <<>>) \o DropFrom(frm, i + 1)

\* the frame without its drop_duplicates step
NothingDropped(frm) == frm
DropDuplicates(frm) == DropFrom(frm, 1)

\* drop(columns=["_source", "_seq"])
LedgerRow(r) ==
    [Date |-> r.Date, Description |-> r.Description, Category |-> r.Category,
     Amount |-> r.Amount, Card |-> r.Card, RecordType |-> r.RecordType]

\* the order of sort_values("Date")
ByDateOnly(a, b) == a.Date < b.Date

\* the order of sort_values(["Card", "Date"])
SortLess(a, b) == StrLess(a.Card, b.Card) \/ (a.Card = b.Card /\ a.Date < b.Date)

\* sort_values on two columns is a stable sort: a row goes behind the rows that
\* sort before it and behind the earlier rows that sort equal to it
TiesReversed(frm, i) ==
    1 + Cardinality({j \in 1..Len(frm) : SortLess(frm[j], frm[i])})
      + Cardinality({j \in (i + 1)..Len(frm) : ~SortLess(frm[j], frm[i]) /\ ~SortLess(frm[i], frm[j])})
SortRank(frm, i) ==
    1 + Cardinality({j \in 1..Len(frm) : SortLess(frm[j], frm[i])})
      + Cardinality({j \in 1..(i - 1) : ~SortLess(frm[j], frm[i]) /\ ~SortLess(frm[i], frm[j])})

SortValues(frm) ==
    LET rank == AsSeq([i \in 1..Len(frm) |-> SortRank(frm, i)])
    IN AsSeq([k \in 1..Len(frm) |-> frm[CHOOSE i \in 1..Len(frm) : rank[i] = k]])

\* lines 148-149: what main writes from the deduplicated frame
Written(frm) == SortValues(AsSeq([i \in 1..Len(frm) |-> LedgerRow(frm[i])]))

----------------------------------------------------------------------------
(* SpecMerge: exports are added to data/ and merge.py is run                *)

MaxRows == 3

SourceNames == {visa_a, visa_b, VISA_A, my_checking}
CheckingNames == {my_checking, MY_CHECKING}

\* visa_a, visa_b and VISA_A are exports of one credit card over different windows,
\* my_checking and MY_CHECKING are exports of one checking account
RealAccount(p) == IF p \in CheckingNames THEN "checking" ELSE "visa"

MergeRecords(p) ==
    IF p \in CheckingNames
    THEN {CheckingRecord(Debit, 1, Shop, -5), CheckingRecord(Credit, 1, Shop, 5)}
    ELSE {CardRecord(d, Shop, Food, -5) : d \in {1, 2}}

MergeColumns(p) == IF p \in CheckingNames THEN CheckingColumns ELSE CardColumns

RECURSIVE TotalRows(_, _)
TotalRows(files, S) ==
    IF S = {} THEN 0
    ELSE LET p == CHOOSE q \in S : TRUE
         IN Len(files[p].rows) + TotalRows(files, S \ {p})

MergeInit ==
    /\ data = <<>>
    /\ frame = NotLoaded
    /\ merged = NoFile
    /\ combined = <<>>
    /\ deduped = <<>>
    /\ rerun = NoRun
    /\ NoMerchant
    /\ NoDates
    /\ NoReports
    /\ NoApp

\* the user drops a new export into data/
AddFile(p, rows) ==
    /\ p \notin DOMAIN data
    /\ TotalRows(data, DOMAIN data) + Len(rows) <= MaxRows
    /\ data' = data @@ (p :> [columns |-> MergeColumns(p), rows |-> rows])
    /\ UNCHANGED <<frame, merged, combined, deduped, rerun, cleanVars, dateVars, reportVars, appVars>>

\* python merge.py
Merge ==
    LET csvs == SortedPaths({p \in DOMAIN data : IsSource(p)})
        failed == \E i \in 1..Len(csvs) : load_card(csvs[i], data[csvs[i]]).err # NoError
        tagged == WithSeq(ConcatFrames(csvs, data))
        kept == DropDuplicates(tagged)
    IN IF csvs = <<>> \/ failed
       THEN UNCHANGED vars
       ELSE /\ combined' = tagged
            /\ deduped' = kept
            /\ merged' = [exists |-> TRUE, rows |-> Written(kept)]
            /\ rerun' = NoRun
            /\ UNCHANGED <<data, frame, cleanVars, dateVars, reportVars, appVars>>

\* lines 136-149 of main run on one frame holding the rows of merged.csv
DedupAgain ==
    /\ merged.exists
    /\ ~rerun.ran
    /\ rerun' = [ran |-> TRUE,
                 rows |-> Written(DropDuplicates(WithSeq(Tagged(merged.rows, merged_csv))))]
    /\ UNCHANGED <<data, frame, merged, combined, deduped, cleanVars, dateVars, reportVars, appVars>>

MergeNext ==
    \/ \E p \in SourceNames \ DOMAIN data :
          \E rows \in SeqsUpTo(MergeRecords(p), MaxRows - TotalRows(data, DOMAIN data)) : AddFile(p, rows)
    \/ Merge
    \/ DedupAgain

SpecMerge == MergeInit /\ [][MergeNext]_vars

\* SpecChecking: the exports in data/ are those of the checking account
CheckingNext ==
    \/ \E p \in CheckingNames \ DOMAIN data :
          \E rows \in SeqsUpTo(MergeRecords(p), MaxRows - TotalRows(data, DOMAIN data)) : AddFile(p, rows)
    \/ Merge
    \/ DedupAgain

SpecChecking == MergeInit /\ [][CheckingNext]_vars

----------------------------------------------------------------------------
(* Properties of the merge (SpecMerge)                                      *)

SameTransaction(a, b) ==
    a.Date = b.Date /\ a.Description = b.Description /\ a.Amount = b.Amount /\ a.RecordType = b.RecordType
LedgerKey(r) == <<r.Date, r.Description, r.Amount, r.Card, r.RecordType>>

AccountOfSource(n) == RealAccount(CHOOSE p \in SourceNames : Name(p) = n)
AccountOfCard(c) == RealAccount(CHOOSE p \in SourceNames : Title(p.stem) = c)

\* how often the transaction of row t is in the frame loaded from source n
Occurrences(t, n) ==
    Cardinality({i \in 1..Len(combined) : combined[i]._source = n /\ SameTransaction(combined[i], t)})
\* how often it is in the merged ledger, on the account acct
InLedger(t, acct) ==
    Cardinality({k \in 1..Len(merged.rows) :
        SameTransaction(merged.rows[k], t) /\ AccountOfCard(merged.rows[k].Card) = acct})

\* C1: a transaction that is once in each of two (or more) source files of one real
\* account is exactly once in the merged ledger.
C1_OverlapCollapses ==
    merged.exists =>
        \A i, j \in 1..Len(combined) :
            LET t == combined[i]
                u == combined[j]
                acct == AccountOfSource(t._source)
            IN (/\ t._source # u._source
                /\ AccountOfSource(u._source) = acct
                /\ SameTransaction(t, u)
                /\ \A k \in 1..Len(combined) :
                      AccountOfSource(combined[k]._source) = acct => Occurrences(t, combined[k]._source) <= 1)
               => InLedger(t, acct) = 1

\* the index of row i among the rows of its own source file with its key
PerFileIndex(i) ==
    Cardinality({j \in 1..(i - 1) :
        combined[j]._source = combined[i]._source /\ LedgerKey(combined[j]) = LedgerKey(combined[i])})
Kept(i) == \E k \in 1..Len(deduped) : deduped[k] = combined[i]

\* C2: the k rows of one source file with one key leave at least k rows with that key
\* in the merged ledger, and a row is removed only when a kept row of another source
\* file has its key and its per-file sequence index.
C2_NoSameFileRemoval ==
    merged.exists =>
        \A i \in 1..Len(combined) :
            /\ Cardinality({j \in 1..Len(combined) :
                    combined[j]._source = combined[i]._source /\ LedgerKey(combined[j]) = LedgerKey(combined[i])})
                 <= Cardinality({k \in 1..Len(merged.rows) : LedgerKey(merged.rows[k]) = LedgerKey(combined[i])})
            /\ ~Kept(i) =>
                 \E j \in 1..Len(combined) :
                     /\ Kept(j)
                     /\ combined[j]._source # combined[i]._source
                     /\ LedgerKey(combined[j]) = LedgerKey(combined[i])
                     /\ PerFileIndex(j) = PerFileIndex(i)

\* one file holds a row twice, another file holds it once, and the merge removed a row
C2_Witness ==
    /\ merged.exists
    /\ Len(deduped) < Len(combined)
    /\ \E i \in 1..Len(combined) : PerFileIndex(i) = 1

\* C3: the dedup steps run on the merged ledger alone return it unchanged: the same
\* rows, with their multiplicities, in the same order.
C3_Idempotent == rerun.ran => rerun.rows = merged.rows

\* the rerun was given a ledger that holds one row twice
C3_Witness ==
    /\ rerun.ran
    /\ Len(merged.rows) >= 2
    /\ \E i, j \in 1..Len(merged.rows) : i # j /\ merged.rows[i] = merged.rows[j]

\* (account, date) of r1 is at most (account, date) of r2
AccountDateLeq(r1, r2) ==
    StrLess(r1.Card, r2.Card) \/ (r1.Card = r2.Card /\ r1.Date <= r2.Date)

\* C27: the ledger merge.main writes is sorted by (account, date) ascending: every
\* row is at most its successor.
C27_SortedByAccountDate ==
    merged.exists =>
        \A k \in 1..(Len(merged.rows) - 1) : AccountDateLeq(merged.rows[k], merged.rows[k + 1])

\* the merge wrote rows of two accounts, two dates of one account among them, in
\* another order than the frames were concatenated in
C27_Witness ==
    /\ merged.exists
    /\ \E i, j \in 1..Len(merged.rows) : merged.rows[i].Card # merged.rows[j].Card
    /\ \E i, j \in 1..Len(merged.rows) :
          merged.rows[i].Card = merged.rows[j].Card /\ merged.rows[i].Date # merged.rows[j].Date
    /\ merged.rows # AsSeq([i \in 1..Len(deduped) |-> LedgerRow(deduped[i])])

\* the number of rows with key in the frame loaded from source n, and in the ledger
CountInSource(key, n) ==
    Cardinality({i \in 1..Len(combined) : combined[i]._source = n /\ LedgerKey(combined[i]) = key})
CountInLedger(key) == Cardinality({k \in 1..Len(merged.rows) : LedgerKey(merged.rows[k]) = key})
SourcesOfRun == {combined[i]._source : i \in 1..Len(combined)}
Largest(S) == CHOOSE x \in S : \A y \in S : y <= x

\* C30: for every key (date, description, amount, account, record_type) the merged
\* ledger holds as many rows as the source file of the run that holds the most rows
\* with that key - not the sum over the files, and not one.
C30_MaxOverFiles ==
    merged.exists =>
        /\ \A i \in 1..Len(combined) :
              LET key == LedgerKey(combined[i])
              IN CountInLedger(key) = Largest({CountInSource(key, n) : n \in SourcesOfRun})
        /\ \A k \in 1..Len(merged.rows) :
              \E i \in 1..Len(combined) : LedgerKey(combined[i]) = LedgerKey(merged.rows[k])

\* one export holds a key twice, another export of the account holds it once, and the
\* merged ledger holds it twice
C30_Witness ==
    /\ merged.exists
    /\ \E i \in 1..Len(combined) :
          LET key == LedgerKey(combined[i])
          IN /\ \E n, m \in SourcesOfRun : CountInSource(key, n) = 2 /\ CountInSource(key, m) = 1
             /\ CountInLedger(key) = 2

\* the ledger holds a row with the key of row i of the concatenated frame
Retained(i) == \E k \in 1..Len(merged.rows) : LedgerKey(merged.rows[k]) = LedgerKey(combined[i])

\* rows of two source files that agree on date, description, amount and account and
\* differ in record_type
DifferInRecordType(a, b) ==
    /\ a._source # b._source
    /\ a.Date = b.Date /\ a.Description = b.Description /\ a.Amount = b.Amount /\ a.Card = b.Card
    /\ a.RecordType # b.RecordType

\* C22: two rows from different source files that agree on date, description, amount
\* and account but differ in record_type are both in the merged ledger: neither is
\* removed against the other, a removed one only against a kept row of its own
\* record_type.
C22_RecordTypeInKey ==
    merged.exists =>
        \A i, j \in 1..Len(combined) :
            DifferInRecordType(combined[i], combined[j]) =>
                /\ Retained(i) /\ Retained(j)
                /\ ~Kept(i) => \E k \in 1..Len(combined) :
                                  Kept(k) /\ k # j /\ LedgerKey(combined[k]) = LedgerKey(combined[i])

\* an expense row of one checking export and an income row of the other, equal in
\* date, description, amount and account, went through the merge and both were kept
C22_Witness ==
    /\ merged.exists
    /\ \E i, j \in 1..Len(combined) :
          /\ DifferInRecordType(combined[i], combined[j])
          /\ combined[i].RecordType = "expense" /\ combined[j].RecordType = "income"
          /\ Kept(i) /\ Kept(j)
          /\ Len(deduped) = Len(combined)

----------------------------------------------------------------------------
(* clean_merchant                                                           *)

\* the length of the longest prefix / suffix of s made of characters of set
LeadingRun(s, set) ==
    CHOOSE n \in 0..Len(s) : (\A j \in 1..n : s[j] \in set) /\ (n = Len(s) \/ s[n + 1] \notin set)
TrailingRun(s, set) ==
    CHOOSE n \in 0..Len(s) :
        (\A j \in (Len(s) - n + 1)..Len(s) : s[j] \in set) /\ (n = Len(s) \/ s[Len(s) - n] \notin set)

DropFirst(s, n) == SubSeq(s, n + 1, Len(s))
DropLast(s, n) == SubSeq(s, 1, Len(s) - n)

\* re.sub(r'\s*#\d+', '', name): every match, found left to right, is removed
RECURSIVE RemoveLocationCodes(_)
RemoveLocationCodes(s) ==
    IF s = <<>> THEN <<>>
    ELSE LET w == LeadingRun(s, Whitespace)
             d == LeadingRun(DropFirst(s, w + 1), Digits)
         IN IF w < Len(s) /\ s[w + 1] = "#" /\ d >= 1
            THEN RemoveLocationCodes(DropFirst(s, w + 1 + d))
            ELSE <<Head(s)>> \o RemoveLocationCodes(Tail(s))

\* \d{4,}
ThreeOrMore(d) == d >= 3
IsStoreNumber(d) == d >= 4

\* re.sub(r'\s+\d{4,}$', '', name)
RemoveStoreNumber(s) ==
    LET d == TrailingRun(s, Digits)
        w == TrailingRun(DropLast(s, d), Whitespace)
    IN IF IsStoreNumber(d) /\ w >= 1 THEN DropLast(s, d + w) ELSE s

\* re.sub(r'\s+[A-Z]{2}$', '', name)
RemoveStateCode(s) ==
    LET w == TrailingRun(DropLast(s, 2), Whitespace)
    IN IF Len(s) >= 3 /\ IsUpperChar(s[Len(s)]) /\ IsUpperChar(s[Len(s) - 1]) /\ w >= 1
       THEN DropLast(s, 2 + w)
       ELSE s

clean_merchant(name) ==
    LET stripped == Strip(RemoveStateCode(RemoveStoreNumber(RemoveLocationCodes(name))))
    IN IF IsUpper(stripped) THEN Title(stripped) ELSE stripped

----------------------------------------------------------------------------
(* SpecClean: clean_merchant applied to a description, then to its result   *)

MaxNameLen == 6

MerchantChars == {"a", "A", " ", "1", "#"}

CleanInit ==
    /\ merchant \in SeqsUpTo(MerchantChars, MaxNameLen)
    /\ cleaned = <<>>
    /\ NoFiles
    /\ NoDates
    /\ NoReports
    /\ NoApp

CleanMerchant ==
    /\ Len(cleaned) < 2
    /\ cleaned' = Append(cleaned, clean_merchant(IF cleaned = <<>> THEN merchant ELSE cleaned[Len(cleaned)]))
    /\ UNCHANGED <<merchant, fileVars, dateVars, reportVars, appVars>>

CleanNext == CleanMerchant

SpecClean == CleanInit /\ [][CleanNext]_vars

\* C8: clean_merchant is idempotent.
C8_CleanIdempotent == Len(cleaned) = 2 => cleaned[2] = cleaned[1]

NumDigits(s) == Cardinality({i \in 1..Len(s) : s[i] \in Digits})

\* the lengths, in order, of the runs of fewer than 4 digits of s from position i on;
\* with skipHash, a run that directly follows a '#' is left out
RECURSIVE ShortRuns(_, _, _)
ShortRuns(s, i, skipHash) ==
    IF i > Len(s) THEN <<>>
    ELSE IF s[i] \notin Digits THEN ShortRuns(s, i + 1, skipHash)
    ELSE LET n == LeadingRun(DropFirst(s, i - 1), Digits)
         IN (IF n < 4 /\ ~(skipHash /\ i > 1 /\ s[i - 1] = "#") THEN <<n>> ELSE <<>>)
            \o ShortRuns(s, i + n, skipHash)

EndsWithLongRun(s) == TrailingRun(s, Digits) >= 4
EndsWithStandaloneLongRun(s) ==
    EndsWithLongRun(s) /\ TrailingRun(DropLast(s, TrailingRun(s, Digits)), Whitespace) >= 1
\* the digits of the run that ends s are gone from t
TrailingRunRemoved(s, t) == NumDigits(t) + TrailingRun(s, Digits) <= NumDigits(s)

\* C9 as claimed: a run of 4 or more digits that ends the string is removed, and
\* every run of fewer than 4 digits stays in place.
C9_TrailingDigitsAnyRun ==
    Len(cleaned) >= 1 =>
        /\ EndsWithLongRun(merchant) => TrailingRunRemoved(merchant, cleaned[1])
        /\ ShortRuns(cleaned[1], 1, FALSE) = ShortRuns(merchant, 1, FALSE)

\* C9 amended: a run of 4 or more digits that ends the string and follows whitespace
\* is removed, and every run of fewer than 4 digits that does not directly follow a
\* '#' stays in place.
C9_TrailingDigits ==
    Len(cleaned) >= 1 =>
        /\ EndsWithStandaloneLongRun(merchant) => TrailingRunRemoved(merchant, cleaned[1])
        /\ ShortRuns(cleaned[1], 1, FALSE) = ShortRuns(merchant, 1, TRUE)

\* a description with a short run of digits that ends in a standalone store number
C9_Witness ==
    /\ Len(cleaned) >= 1
    /\ EndsWithStandaloneLongRun(merchant)
    /\ ShortRuns(merchant, 1, TRUE) # <<>>
    /\ NumDigits(cleaned[1]) >= 1

----------------------------------------------------------------------------
(* compute_date_range                                                       *)

IsLeap(y) == y % 4 = 0 /\ (y % 100 # 0 \/ y % 400 = 0)
DaysInMonth(y, m) ==
    IF m = 2 THEN (IF IsLeap(y) THEN 29 ELSE 28)
    ELSE IF m \in {4, 6, 9, 11} THEN 30 ELSE 31

\* a < b, a <= b, max(a, b), min(a, b) for datetime.date
DateLess(a, b) ==
    \/ a.year < b.year
    \/ a.year = b.year /\ a.month < b.month
    \/ a.year = b.year /\ a.month = b.month /\ a.day < b.day
DateLeq(a, b) == a = b \/ DateLess(a, b)
MaxDate(a, b) == IF DateLess(a, b) THEN b ELSE a
MinDate(a, b) == IF DateLess(b, a) THEN b ELSE a

\* d.replace(day=1)
FirstOfMonth(d) == Date(d.year, d.month, 1)

\* d - datetime.timedelta(days=1)
DayBefore(d) ==
    IF d.day > 1 THEN Date(d.year, d.month, d.day - 1)
    ELSE IF d.month > 1 THEN Date(d.year, d.month - 1, DaysInMonth(d.year, d.month - 1))
    ELSE Date(d.year - 1, 12, 31)

\* _months_back without the branch for a month that lands on or before zero
MonthsBackFloorOnly(d, n) ==
    LET m0 == d.month - n
    IN Date(d.year + (m0 \div 12), IF m0 % 12 = 0 THEN 12 ELSE m0 % 12, 1)

\* _months_back(d, n): // and % round towards minus infinity, as \div and % do
_months_back(d, n) ==
    LET m0 == d.month - n
        month1 == IF m0 % 12 = 0 THEN 12 ELSE m0 % 12
        year1 == d.year + (m0 \div 12)
    IN IF m0 <= 0
       THEN Date(d.year - (((-m0) \div 12) + 1), 12 - ((-m0) % 12), 1)
       ELSE Date(year1, month1, 1)

\* rolling periods that end with the ledger whatever today is
EndOfLedger(t, mx) == mx

\* eff_end = min(today, max_date) if today <= max_date else max_date
eff_end(t, mx) == IF DateLeq(t, mx) THEN MinDate(t, mx) ELSE mx

\* "Last month" ending today, as the rolling periods do
LastMonthEndsToday(t, mx) == MinDate(t, mx)

\* the end of "Last month": min(last_of_last_month, max_date)
LastMonthEnd(t, mx) == MinDate(DayBefore(FirstOfMonth(t)), mx)

\* the start of "Last month": max(first_of_last_month, min_date)
LastMonthStart(t, mn) == MaxDate(FirstOfMonth(DayBefore(FirstOfMonth(t))), mn)

compute_date_range(c, t, mn, mx) ==
    CASE c = "Last month" -> [start |-> LastMonthStart(t, mn), end |-> LastMonthEnd(t, mx)]
      [] c = "Last 3 months" -> [start |-> MaxDate(_months_back(t, 3), mn), end |-> eff_end(t, mx)]
      [] c = "Last 6 months" -> [start |-> MaxDate(_months_back(t, 6), mn), end |-> eff_end(t, mx)]
      [] c = "YTD" -> [start |-> MaxDate(Date(t.year, 1, 1), mn), end |-> eff_end(t, mx)]
      [] c = "All time" -> [start |-> mn, end |-> mx]
      [] OTHER -> [start |-> MaxDate(_months_back(t, 12), mn), end |-> eff_end(t, mx)]

\* the presets of DATE_PRESETS that date_filter hands to compute_date_range
Presets == {"Last 12 months", "Last month", "Last 3 months", "Last 6 months", "YTD", "All time"}

----------------------------------------------------------------------------
(* SpecDate: a ledger spanning [min_date, max_date] is viewed on day today  *)

NumYears == 2

\* 2024 is a leap year
Years == 2023..(2022 + NumYears)
TodayDates == {Date(y, m, d) : y \in Years, m \in 1..12, d \in {1, 15}}
              \cup {Date(y, m, DaysInMonth(y, m)) : y \in Years, m \in 1..12}
LedgerDates == {Date(y, m, d) : y \in Years, m \in {1, 2, 6, 12}, d \in {1, 20}}

DateInit ==
    /\ today \in TodayDates
    /\ min_date \in LedgerDates
    /\ max_date \in LedgerDates
    /\ DateLeq(min_date, max_date)
    /\ choice = ""
    /\ range = NoRange
    /\ before = NoResolve
    /\ NoFiles
    /\ NoMerchant
    /\ NoReports
    /\ NoApp

\* the user picks a preset in the date dropdown
Resolve(c) ==
    /\ choice' = c
    /\ range' = compute_date_range(c, today, min_date, max_date)
    /\ before' = [choice |-> choice, range |-> range]
    /\ UNCHANGED <<today, min_date, max_date, fileVars, cleanVars, reportVars, appVars>>

DateNext == \E c \in Presets : Resolve(c)

SpecDate == DateInit /\ [][DateNext]_vars

\* the calendar month before the month of d
PreviousMonthFirst(d) == IF d.month = 1 THEN Date(d.year - 1, 12, 1) ELSE Date(d.year, d.month - 1, 1)
PreviousMonthLast(d) ==
    IF d.month = 1 THEN Date(d.year - 1, 12, 31)
    ELSE Date(d.year, d.month - 1, DaysInMonth(d.year, d.month - 1))
\* d clamped into [min_date, max_date]
Clamped(d) == IF DateLess(d, min_date) THEN min_date ELSE IF DateLess(max_date, d) THEN max_date ELSE d

\* C10: 'Last month' runs from the first to the last day of the month before
\* today's month, each clamped into [min_date, max_date].
C10_LastMonth ==
    choice = "Last month" =>
        /\ range.start = Clamped(PreviousMonthFirst(today))
        /\ range.end = Clamped(PreviousMonthLast(today))

\* the first day of today's month
FirstOfThisMonth == Date(today.year, today.month, 1)
\* the ledger has a transaction in today's month or later
LedgerReachesThisMonth == DateLeq(FirstOfThisMonth, max_date)
\* 'Last month' and 'YTD' were resolved one after the other, for the same today, min_date, max_date
LastMonthAndYTD ==
    \/ choice = "Last month" /\ before.choice = "YTD"
    \/ choice = "YTD" /\ before.choice = "Last month"

MonthsOf(c) == IF c = "Last 3 months" THEN 3 ELSE IF c = "Last 6 months" THEN 6 ELSE 12
IsLastN == choice \in {"Last 3 months", "Last 6 months", "Last 12 months"}
\* months counted from year 0: the month n months before the month of d, by its first day
MonthNumber(d) == d.year * 12 + (d.month - 1)
FirstOfMonthNumber(k) == Date(k \div 12, (k % 12) + 1, 1)
MonthsBefore(d, n) == FirstOfMonthNumber(MonthNumber(d) - n)
Later(a, b) == IF DateLess(a, b) THEN b ELSE a
Earlier(a, b) == IF DateLess(a, b) THEN a ELSE b

C29_IntervalInsideLedger ==
    choice \in Presets =>
        /\ DateLeq(range.start, range.end)
        /\ DateLeq(min_date, range.start) /\ DateLeq(range.start, max_date)
        /\ DateLeq(min_date, range.end) /\ DateLeq(range.end, max_date)

----------------------------------------------------------------------------
(* detect_subscriptions                                                     *)
(* A mean or a standard deviation is never rounded here: each comparison    *)
(* of the code is made on the integers it is a quotient of.                 *)

\* date.toordinal(): the day number of a calendar date, as Timestamp subtraction counts days
RECURSIVE DaysBeforeMonth(_, _)
DaysBeforeMonth(y, m) == IF m = 1 THEN 0 ELSE DaysBeforeMonth(y, m - 1) + DaysInMonth(y, m - 1)
DaysBeforeYear(y) == 365 * (y - 1) + ((y - 1) \div 4) - ((y - 1) \div 100) + ((y - 1) \div 400)
Ordinal(d) == DaysBeforeYear(d.year) + DaysBeforeMonth(d.year, d.month) + d.day

\* a row of the frame the reports take
Row(date, desc, cat, amount) == [Date |-> date, Description |-> desc, Category |-> cat, Amount |-> amount]

\* Series.sum() of integers, and of their squares
RECURSIVE Sum(_)
Sum(xs) == IF xs = <<>> THEN 0 ELSE Head(xs) + Sum(Tail(xs))
RECURSIVE SumSq(_)
SumSq(xs) == IF xs = <<>> THEN 0 ELSE Head(xs) * Head(xs) + SumSq(Tail(xs))

\* n * (n - 1) * Series.std() ** 2, the sample variance (ddof = 1) before its division
Spread(xs) == Len(xs) * SumSq(xs) - Sum(xs) * Sum(xs)

\* df.groupby("Description"): the keys in ascending order, and the rows of one key in frame order
GroupRows(frm, key) == SelectSeq(frm, LAMBDA r : r.Description = key)
RECURSIVE SortedKeys(_)
SortedKeys(keys) ==
    IF keys = {} THEN <<>>
    ELSE LET k == CHOOSE x \in keys : \A y \in keys \ {x} : StrLess(x, y)
         IN <<k>> \o SortedKeys(keys \ {k})

\* the dates of a group left in frame order
Unsorted(days) == days

\* group["Date"].sort_values().reset_index(drop=True), on day numbers
RECURSIVE InsertDay(_, _)
InsertDay(sorted, d) ==
    IF sorted = <<>> THEN <<d>>
    ELSE IF d < Head(sorted) THEN <<d>> \o sorted
    ELSE <<Head(sorted)>> \o InsertDay(Tail(sorted), d)
RECURSIVE SortDays(_)
SortDays(days) == IF days = <<>> THEN <<>> ELSE InsertDay(SortDays(Tail(days)), Head(days))

\* dates.diff().dropna().dt.days
Gaps(days) == AsSeq([i \in 1..(Len(days) - 1) |-> days[i + 1] - days[i]])

\* lo <= gaps.mean() <= hi
MeanWithin(gaps, lo, hi) == lo * Len(gaps) <= Sum(gaps) /\ Sum(gaps) <= hi * Len(gaps)

\* a cadence accepted whatever the spread of the gaps
AnySpread(gaps, limit) == TRUE

\* std_gap <= limit, with std_gap = gaps.std() if len(gaps) > 1 else 0
GapsSteady(gaps, limit) ==
    IF Len(gaps) > 1
    THEN Spread(gaps) <= limit * limit * Len(gaps) * (Len(gaps) - 1)
    ELSE 0 <= limit

\* the if / elif chain of cadences: window of the mean gap, limit of the gap
\* deviation, and Est Monthly Cost = amounts.mean() * times / per
Cadences == <<
    [name |-> "Weekly",    lo |-> 5,   hi |-> 9,   limit |-> 2,  times |-> 433, per |-> 100],
    [name |-> "Monthly",   lo |-> 25,  hi |-> 35,  limit |-> 5,  times |-> 1,   per |-> 1],
    [name |-> "Quarterly", lo |-> 85,  hi |-> 95,  limit |-> 7,  times |-> 1,   per |-> 3],
    [name |-> "Annual",    lo |-> 355, hi |-> 375, limit |-> 10, times |-> 1,   per |-> 12] >>
NoCadence == 0
Matches(gaps, c) == MeanWithin(gaps, c.lo, c.hi) /\ GapsSteady(gaps, c.limit)
\* the index of the first branch taken, NoCadence for the final else
CadenceOf(gaps) ==
    IF \E i \in DOMAIN Cadences : Matches(gaps, Cadences[i])
    THEN CHOOSE i \in DOMAIN Cadences :
            /\ Matches(gaps, Cadences[i])
            /\ \A j \in 1..(i - 1) : ~Matches(gaps, Cadences[j])
    ELSE NoCadence

\* no group rejected for its amounts
NeverVaries(amounts) == FALSE

\* (amounts.std() / amounts.mean() if amounts.mean() > 0 else 1) > 0.15
\* std / mean > 15/100  <=>  400 * n * Spread > 9 * (n - 1) * Sum^2, for mean > 0 and n > 1;
\* the std of a single amount is NaN, and NaN > 0.15 is False
AmountsVary(amounts) ==
    IF Sum(amounts) > 0
    THEN /\ Len(amounts) > 1
         /\ 400 * Len(amounts) * Spread(amounts) > 9 * (Len(amounts) - 1) * Sum(amounts) * Sum(amounts)
    ELSE TRUE

\* a quotient num / den kept exact, den > 0
Ratio(num, den) == [num |-> num, den |-> den]
RatioLess(a, b) == a.num * b.den < b.num * a.den

\* the body of the loop for one group: <<>> for continue, else the appended row
SubscriptionOf(frm, merchant_, min_occurrences) ==
    LET group == GroupRows(frm, merchant_)
        dates == SortDays(AsSeq([i \in DOMAIN group |-> Ordinal(group[i].Date)]))
        amounts == AsSeq([i \in DOMAIN group |-> group[i].Amount])
        gaps == Gaps(dates)
        c == CadenceOf(gaps)
    IN IF Len(group) < min_occurrences THEN <<>>
       ELSE IF Len(gaps) = 0 THEN <<>>
       ELSE IF c = NoCadence THEN <<>>
       ELSE IF AmountsVary(amounts) THEN <<>>
       ELSE << [Merchant |-> merchant_,
                Cadence |-> Cadences[c].name,
                Occurrences |-> Len(group),
                AvgCharge |-> Ratio(Sum(amounts), Len(amounts)),
                EstMonthlyCost |-> Ratio(Sum(amounts) * Cadences[c].times, Len(amounts) * Cadences[c].per),
                FirstSeen |-> dates[1],
                LastSeen |-> dates[Len(dates)]] >>

RECURSIVE SubscriptionsOf(_, _, _)
SubscriptionsOf(frm, keys, min_occurrences) ==
    IF keys = <<>> THEN <<>>
    ELSE SubscriptionOf(frm, Head(keys), min_occurrences) \o SubscriptionsOf(frm, Tail(keys), min_occurrences)

\* sort_values("Est Monthly Cost", ascending=False): the default quicksort is
\* not stable, so rows of equal cost may come out in any order
Descending(rows) == \A i \in 1..(Len(rows) - 1) : ~RatioLess(rows[i].EstMonthlyCost, rows[i + 1].EstMonthlyCost)
Orderings(results) ==
    { AsSeq([i \in DOMAIN results |-> results[f[i]]]) :
        f \in { g \in [DOMAIN results -> DOMAIN results] : \A i, j \in DOMAIN results : g[i] = g[j] => i = j } }
SortedByCost(results) == { rows \in Orderings(results) : Descending(rows) }

\* the frames detect_subscriptions(df, min_occurrences) can return (an empty DataFrame is <<>>)
detect_subscriptions(frm, min_occurrences) ==
    SortedByCost(SubscriptionsOf(frm, SortedKeys({ frm[i].Description : i \in DOMAIN frm }), min_occurrences))

----------------------------------------------------------------------------
(* SpecSubs: the subscriptions page runs detect_subscriptions on a slice    *)

MaxCharges == 3

Netflix == <<"N", "e", "t", "f", "l", "i", "x">>
Gym == <<"G", "y", "m">>
\* a week, a month, two and three months, and a year (2024 has 366 days)
\* after 2024-01-15
SubsDates == {
    Date(2024, 1, 15), Date(2024, 1, 22), Date(2024, 2, 15), Date(2024, 3, 15),
    Date(2024, 4, 15), Date(2025, 1, 15) }
SubsAmounts == {0, 10, 12}
SubsRows == { Row(d, Netflix, Shop, a) : d \in SubsDates, a \in SubsAmounts }
\* a second merchant: absent, or charged 10 in January and in February
GymJan == Row(Date(2024, 1, 15), Gym, Food, 10)
GymFeb == Row(Date(2024, 2, 15), Gym, Food, 10)

SubsInit ==
    /\ \E rows \in SeqsUpTo(SubsRows, MaxCharges) : df \in {rows, <<GymFeb>> \o rows \o <<GymJan>>}
    /\ subs = NotRun
    /\ insights = NotRun
    /\ NoFiles
    /\ NoMerchant
    /\ NoDates
    /\ NoApp

\* pages/3_Subscriptions.py: subs = detect_subscriptions(df)
DetectSubscriptions ==
    /\ subs' \in { [ran |-> TRUE, rows |-> rows] : rows \in detect_subscriptions(df, 2) }
    /\ UNCHANGED <<df, insights, fileVars, cleanVars, dateVars, appVars>>

SubsNext == DetectSubscriptions

SpecSubs == SubsInit /\ [][SubsNext]_vars

----------------------------------------------------------------------------
(* Properties of detect_subscriptions (SpecSubs)                            *)

MerchantsOf(frm) == { frm[i].Description : i \in DOMAIN frm }
ChargesOf(m) == { i \in DOMAIN df : df[i].Description = m }
Reported(m) == { i \in DOMAIN subs.rows : subs.rows[i].Merchant = m }
\* the day numbers of the charges of m, and the gaps between consecutive ones in date order
DaysOf(m) == { Ordinal(df[i].Date) : i \in ChargesOf(m) }
GapsOf(m) == Gaps(SortDays(AsSeq([i \in DOMAIN GroupRows(df, m) |-> Ordinal(GroupRows(df, m)[i].Date)])))
AmountsOf(m) == AsSeq([i \in DOMAIN GroupRows(df, m) |-> GroupRows(df, m)[i].Amount])
Earliest(days) == CHOOSE d \in days : \A e \in days : d <= e
Latest(days) == CHOOSE d \in days : \A e \in days : d >= e
\* n * (n - 1) * variance, as the sum over all pairs of the squared differences
RECURSIVE PairSquares(_)
PairSquares(xs) ==
    IF Len(xs) < 2 THEN 0
    ELSE Sum(AsSeq([i \in 1..(Len(xs) - 1) |-> (xs[i + 1] - xs[1]) * (xs[i + 1] - xs[1])])) + PairSquares(Tail(xs))
\* the claim's table
Window(c) ==
    CASE c = "Weekly" -> [lo |-> 5, hi |-> 9, limit |-> 2, times |-> 433, per |-> 100]
      [] c = "Monthly" -> [lo |-> 25, hi |-> 35, limit |-> 5, times |-> 100, per |-> 100]
      [] c = "Quarterly" -> [lo |-> 85, hi |-> 95, limit |-> 7, times |-> 100, per |-> 300]
      [] c = "Annual" -> [lo |-> 355, hi |-> 375, limit |-> 10, times |-> 100, per |-> 1200]
CadenceNames == {"Weekly", "Monthly", "Quarterly", "Annual"}
\* n charges spanning span days, with gaps of squared spread n_gaps * (n_gaps - 1) * variance,
\* fit cadence c: the mean gap span / (n - 1) lies in its window, and the
\* standard deviation of the gaps (0 for a single gap) is at most its limit
FitsWindow(n, span, spread, c) ==
    /\ n >= 2
    /\ Window(c).lo * (n - 1) <= span /\ span <= Window(c).hi * (n - 1)
    /\ spread <= Window(c).limit * Window(c).limit * (n - 1) * (n - 2)
Fits(m, c) ==
    FitsWindow(Cardinality(ChargesOf(m)), Latest(DaysOf(m)) - Earliest(DaysOf(m)), PairSquares(GapsOf(m)), c)
\* cost = (mean charge) * times / per
CostIs(cost, total, n, c) == cost.num * n * Window(c).per = total * Window(c).times * cost.den

\* C14: a merchant is reported with a cadence only when its mean gap lies in
\* that cadence's window and its gap deviation is within that cadence's
\* limit; a merchant fitting no cadence is not reported; the monthly cost is
\* the mean charge times 4.33, 1, 1/3 or 1/12.
C14_Cadence ==
    subs.ran =>
        \A m \in MerchantsOf(df) :
            LET n == Cardinality(ChargesOf(m))
                days == DaysOf(m)
                span == Latest(days) - Earliest(days)
                spread == PairSquares(GapsOf(m))
                total == Sum(AmountsOf(m))
            IN /\ \A i \in Reported(m) :
                    /\ subs.rows[i].Cadence \in CadenceNames
                    /\ FitsWindow(n, span, spread, subs.rows[i].Cadence)
                    /\ CostIs(subs.rows[i].EstMonthlyCost, total, n, subs.rows[i].Cadence)
               /\ (\A c \in CadenceNames : ~FitsWindow(n, span, spread, c)) => Reported(m) = {}

\* three charges at uneven monthly gaps (31 and 29 days) are reported Monthly
C14_Witness ==
    /\ subs.ran
    /\ \E i \in DOMAIN subs.rows :
        /\ subs.rows[i].Cadence = "Monthly"
        /\ subs.rows[i].Occurrences = 3
        /\ PairSquares(GapsOf(subs.rows[i].Merchant)) > 0
        /\ subs.rows[i].EstMonthlyCost.num > 0

\* the coefficient of variation of the charges of m exceeds 0.15, or their mean is 0
AmountsInconsistent(m) ==
    LET n == Cardinality(ChargesOf(m))
        total == Sum(AmountsOf(m))
    IN \/ total = 0
       \/ n >= 2 /\ total > 0 /\ 400 * n * PairSquares(AmountsOf(m)) > 9 * (n - 1) * total * total

\* C15: a merchant whose charges have a coefficient of variation above 0.15,
\* or a mean of 0, is never reported, whatever its gaps.
C15_AmountVariation ==
    subs.ran => \A m \in MerchantsOf(df) : AmountsInconsistent(m) => Reported(m) = {}

\* charges a month apart with amounts too far apart, and no row for the merchant
C15_Witness ==
    /\ subs.ran
    /\ \E m \in MerchantsOf(df) :
        /\ Fits(m, "Monthly")
        /\ Sum(AmountsOf(m)) > 0
        /\ AmountsInconsistent(m)
        /\ Reported(m) = {}

\* the charges of m: one in each of n >= 2 consecutive calendar months, all on
\* the same day of the month (at most the 28th), all of the same positive amount
MonthlyCharges(m) ==
    LET idx == ChargesOf(m)
        months == { MonthNumber(df[i].Date) : i \in idx }
    IN /\ Cardinality(idx) >= 2
       /\ Cardinality(months) = Cardinality(idx)
       /\ \A a, b \in months : \A k \in a..b : k \in months
       /\ \A i, j \in idx : df[i].Date.day = df[j].Date.day /\ df[i].Amount = df[j].Amount
       /\ \A i \in idx : df[i].Date.day <= 28 /\ df[i].Amount > 0

\* C16: a merchant charged the same positive amount on the same day (<= 28) of
\* n >= 2 consecutive months gets exactly one row, Monthly, with occurrences
\* n; a merchant with a single charge gets no row.
C16_MonthlySubscription ==
    subs.ran =>
        \A m \in MerchantsOf(df) :
            /\ MonthlyCharges(m) =>
                /\ Cardinality(Reported(m)) = 1
                /\ \A i \in Reported(m) :
                    /\ subs.rows[i].Cadence = "Monthly"
                    /\ subs.rows[i].Occurrences = Cardinality(ChargesOf(m))
            /\ Cardinality(ChargesOf(m)) = 1 => Reported(m) = {}

\* three monthly charges listed out of date order, reported once
C16_Witness ==
    /\ subs.ran
    /\ \E m \in MerchantsOf(df) :
        /\ MonthlyCharges(m)
        /\ Cardinality(ChargesOf(m)) = 3
        /\ \E i, j \in ChargesOf(m) : i < j /\ DateLess(df[j].Date, df[i].Date)
        /\ Cardinality(Reported(m)) = 1

----------------------------------------------------------------------------
(* compute_insights                                                         *)
(* Averages and percentages are kept as exact quotients (Ratio).            *)

\* df["Date"].dt.to_period("M") (load_all), and p < q on periods
YearMonth(d) == [year |-> d.year, month |-> d.month]
PeriodLess(p, q) == p.year < q.year \/ (p.year = q.year /\ p.month < q.month)
NoPeriod == [year |-> 0, month |-> 0]

\* df["YearMonth"].unique() as a set, and df["YearMonth"].max()
PeriodsOf(frm) == { YearMonth(frm[i].Date) : i \in DOMAIN frm }
MaxPeriod(periods) == CHOOSE p \in periods : \A q \in periods : ~PeriodLess(p, q)

\* sorted(...) of a set of periods
RECURSIVE SortedPeriods(_)
SortedPeriods(periods) ==
    IF periods = {} THEN <<>>
    ELSE LET p == CHOOSE x \in periods : \A y \in periods : ~PeriodLess(y, x)
         IN <<p>> \o SortedPeriods(periods \ {p})

\* the previous month alone taken as the baseline
LastOne(xs) == IF Len(xs) <= 1 THEN xs ELSE SubSeq(xs, Len(xs), Len(xs))
\* xs[-3:]
LastThree(xs) == IF Len(xs) <= 3 THEN xs ELSE SubSeq(xs, Len(xs) - 2, Len(xs))
\* every candidate returned
Uncut(xs) == xs
\* xs[:5]
FirstFive(xs) == IF Len(xs) <= 5 THEN xs ELSE SubSeq(xs, 1, 5)

\* frame[frame[col] == v]["Amount"].sum(), for col Category and Description
CategoryTotal(frm, cat) == Sum(AsSeq([i \in DOMAIN frm |-> IF frm[i].Category = cat THEN frm[i].Amount ELSE 0]))
MerchantTotal(frm, desc) == Sum(AsSeq([i \in DOMAIN frm |-> IF frm[i].Description = desc THEN frm[i].Amount ELSE 0]))
CategoriesOf(frm) == { frm[i].Category : i \in DOMAIN frm }

AbsRatio(r) == Ratio(Abs(r.num), r.den)
RatioLeq(a, b) == a.num * b.den <= b.num * a.den

\* pct_change = dollar_change / baseline if baseline > 0 else (1.0 if this_month > 0 else 0)
\* with this_month = cur, baseline = base_total / n
PctChange(cur, base_total, n) ==
    IF base_total > 0 THEN Ratio(n * cur - base_total, base_total)
    ELSE IF cur > 0 THEN Ratio(1, 1) ELSE Ratio(0, 1)

\* a change flagged on its percentage alone
AnyDollars(dollar_change) == TRUE

\* abs(dollar_change) >= 25
DollarFloor(dollar_change) == RatioLeq(Ratio(25, 1), AbsRatio(dollar_change))

\* abs(pct_change) >= 0.20 and abs(dollar_change) >= 25
Flagged(pct_change, dollar_change) ==
    RatioLeq(Ratio(20, 100), AbsRatio(pct_change)) /\ DollarFloor(dollar_change)

TopMerchantLabel == <<"T", "o", "p", " ", "M", "e", "r", "c", "h", "a", "n", "t">>

\* the dict appended for a category (the percentage printed in the headline is left out)
CategoryInsight(cat, cur, base_total, n) ==
    LET dollar_change == Ratio(n * cur - base_total, n)
        indicator == IF dollar_change.num > 0 THEN "spike" ELSE "drop"
    IN [type |-> "category", category |-> cat,
        headline |-> [name |-> cat, text |-> IF indicator = "spike" THEN "up" ELSE "down"],
        dollar_amount |-> cur, dollar_change |-> dollar_change,
        pct_change |-> PctChange(cur, base_total, n), indicator |-> indicator]

\* the dicts the loop over the categories appends, as a set: the loop walks a
\* Python set, so their order in the list is arbitrary
CategoryInsights(current_df, baseline_df, n) ==
    { CategoryInsight(cat, CategoryTotal(current_df, cat), CategoryTotal(baseline_df, cat), n) :
        cat \in { c \in CategoriesOf(current_df) \cup CategoriesOf(baseline_df) :
                    Flagged(PctChange(CategoryTotal(current_df, c), CategoryTotal(baseline_df, c), n),
                            Ratio(n * CategoryTotal(current_df, c) - CategoryTotal(baseline_df, c), n)) } }

\* the merchant of the first row of the current period
FirstMerchant(current_df) == current_df[1].Description

\* current_df.groupby("Description")["Amount"].sum().nlargest(1): the largest
\* total, the first in the order of the index among equal totals
TopMerchant(current_df) ==
    LET names == { current_df[i].Description : i \in DOMAIN current_df }
    IN CHOOSE x \in names :
        \A y \in names \ {x} :
            \/ MerchantTotal(current_df, x) > MerchantTotal(current_df, y)
            \/ MerchantTotal(current_df, x) = MerchantTotal(current_df, y) /\ StrLess(x, y)

\* the dict appended for the top merchant: <<>> when current_df is empty
TopMerchantInsight(current_df) ==
    IF current_df = <<>> THEN <<>>
    ELSE LET top == TopMerchant(current_df)
         IN << [type |-> "merchant", category |-> TopMerchantLabel,
                headline |-> [name |-> top, text |-> "Top merchant"],
                dollar_amount |-> MerchantTotal(current_df, top),
                dollar_change |-> Ratio(MerchantTotal(current_df, top), 1),
                pct_change |-> Ratio(0, 1), indicator |-> "info"] >>

\* insights.sort(key=lambda x: abs(x["dollar_change"]), reverse=True): the sort
\* is stable, so dicts of equal key stay in the order of the list, the
\* category dicts in the arbitrary order of the loop and the merchant dict,
\* appended last, after them.  The set of lists the sort can leave:
RECURSIVE SortedInsights(_, _)
SortedInsights(cats, top) ==
    IF cats = {} THEN {top}
    ELSE LET best == { c \in cats : \A o \in cats : RatioLeq(AbsRatio(o.dollar_change), AbsRatio(c.dollar_change)) }
         IN IF top # <<>> /\ \A c \in cats : ~RatioLeq(AbsRatio(top[1].dollar_change), AbsRatio(c.dollar_change))
            THEN { top \o rest : rest \in SortedInsights(cats, <<>>) }
            ELSE UNION { { <<c>> \o rest : rest \in SortedInsights(cats \ {c}, top) } : c \in best }

NoInsights == [current_period |-> NoPeriod, baseline_periods |-> <<>>, candidates |-> {}, rows |-> <<>>]

\* the results compute_insights(df) can return, each with the periods it
\* settled on and the candidates it built before the cut
compute_insights(frm) ==
    IF frm = <<>> \/ Cardinality(PeriodsOf(frm)) < 2 THEN {NoInsights}
    ELSE LET current_period == MaxPeriod(PeriodsOf(frm))
             baseline_periods == LastThree(SortedPeriods({ p \in PeriodsOf(frm) : PeriodLess(p, current_period) }))
             current_df == SelectSeq(frm, LAMBDA r : YearMonth(r.Date) = current_period)
             baseline_df == SelectSeq(frm, LAMBDA r : \E i \in DOMAIN baseline_periods : YearMonth(r.Date) = baseline_periods[i])
             cats == CategoryInsights(current_df, baseline_df, Len(baseline_periods))
             top == TopMerchantInsight(current_df)
         IN IF baseline_periods = <<>> THEN {NoInsights}
            ELSE { [current_period |-> current_period, baseline_periods |-> baseline_periods,
                    candidates |-> cats \cup { top[i] : i \in DOMAIN top },
                    rows |-> FirstFive(sorted)] : sorted \in SortedInsights(cats, top) }

----------------------------------------------------------------------------
(* SpecInsights: compute_insights runs on a slice                           *)

MaxNewRows == 2

Travel == <<"T", "r", "a", "v", "e", "l">>
Health == <<"H", "e", "a", "l", "t", "h">>
Dining == <<"D", "i", "n", "i", "n", "g">>
Nov == Date(2023, 11, 15)
Dec == Date(2023, 12, 15)
Jan == Date(2024, 1, 15)
Feb == Date(2024, 2, 15)
Mar == Date(2024, 3, 15)

\* the history the slice starts from: nothing; five categories of February,
\* each with its own merchant; one category over four months; one category
\* steady over February and March
History == {
    <<>>,
    << Row(Feb, Food, Food, 1000), Row(Feb, Shop, Shop, 1100), Row(Feb, Travel, Travel, 1200),
       Row(Feb, Health, Health, 1300), Row(Feb, Dining, Dining, 1400) >>,
    << Row(Nov, Gym, Food, 300), Row(Dec, Gym, Food, 30), Row(Jan, Gym, Food, 60), Row(Feb, Gym, Food, 90) >>,
    << Row(Mar, Gym, Food, 1000), Row(Feb, Gym, Food, 1000) >> }

\* the rows added to it
NewRows == { Row(d, m, c, a) : d \in {Feb, Mar}, m \in {Netflix, Gym}, c \in {Food, Shop}, a \in {0, 20, 25, 100} }

InsightsInit ==
    /\ \E h \in History, rows \in SeqsUpTo(NewRows, MaxNewRows) : df = h \o rows
    /\ subs = NotRun
    /\ insights = NotRun
    /\ NoFiles
    /\ NoMerchant
    /\ NoDates
    /\ NoApp

\* a caller runs compute_insights(df)
ComputeInsights ==
    /\ insights' \in { [ran |-> TRUE] @@ r : r \in compute_insights(df) }
    /\ UNCHANGED <<df, subs, fileVars, cleanVars, dateVars, appVars>>

InsightsNext == ComputeInsights

SpecInsights == InsightsInit /\ [][InsightsNext]_vars

----------------------------------------------------------------------------
(* Properties of compute_insights (SpecInsights)                            *)

MonthsIn == { YearMonth(df[i].Date) : i \in DOMAIN df }
HasBaseline == insights.ran /\ Cardinality(MonthsIn) >= 2
\* the latest month of the slice, and the up-to-three latest months before it
LatestOf(months) == CHOOSE p \in months : \A q \in months : q = p \/ PeriodLess(q, p)
BaselineOf(months, latest) ==
    { p \in months :
        /\ PeriodLess(p, latest)
        /\ Cardinality({ q \in months : PeriodLess(p, q) /\ PeriodLess(q, latest) }) < 3 }
LatestMonth == LatestOf(MonthsIn)
BaselineMonths == LET months == MonthsIn IN BaselineOf(months, LatestOf(months))
\* what the category cat spent over a set of months
Spent(cat, months) ==
    Sum(AsSeq([i \in DOMAIN df |->
        IF df[i].Category = cat /\ YearMonth(df[i].Date) \in months THEN df[i].Amount ELSE 0]))
PresentIn(months) == { df[i].Category : i \in { j \in DOMAIN df : YearMonth(df[j].Date) \in months } }
PresentCategories == PresentIn(BaselineMonths \cup {LatestMonth})
CategoryCandidates == { c \in insights.candidates : c.type = "category" }
CandidatesFor(cat) == { c \in CategoryCandidates : c.category = cat }
\* |pct| >= 0.20 for current cur and a baseline of total / n: pct = delta /
\* baseline when baseline > 0, else 1 if current > 0, else 0
PctAtLeastFifth(cur, total, n) ==
    IF total > 0 THEN 5 * Abs(n * cur - total) >= total
    ELSE cur > 0
\* |delta| >= 25, delta = cur - total / n
DeltaAtLeast25(cur, total, n) == Abs(n * cur - total) >= 25 * n

C18_Periods ==
    insights.ran =>
        LET latest == LatestMonth
            base == BaselineMonths
        IN IF df = <<>> \/ Cardinality(MonthsIn) < 2 \/ base = {}
           THEN insights.rows = <<>>
           ELSE /\ insights.current_period = latest
                /\ { insights.baseline_periods[i] : i \in DOMAIN insights.baseline_periods } = base
                /\ Len(insights.baseline_periods) = Cardinality(base)
                /\ \A c \in CategoryCandidates :
                    \* (dollar_amount - dollar_change) * n = total over the baseline periods
                    /\ c.dollar_amount = Spent(c.category, {latest})
                    /\ (c.dollar_amount * c.dollar_change.den - c.dollar_change.num) * Cardinality(base)
                           = Spent(c.category, base) * c.dollar_change.den

\* five months in the slice: the oldest is left out of the baseline, and a
\* category is compared with its average over the other three
C18_Witness ==
    /\ insights.ran
    /\ Cardinality(MonthsIn) = 5
    /\ Len(insights.baseline_periods) = 3
    /\ \E c \in CategoryCandidates : Spent(c.category, MonthsIn \ (BaselineMonths \cup {LatestMonth})) > 0

InfoRows == { i \in DOMAIN insights.rows : insights.rows[i].indicator = "info" }
InfoCandidates == { c \in insights.candidates : c.indicator = "info" }
\* what a merchant spent in the current period
MerchantSpent(m) ==
    Sum(AsSeq([i \in DOMAIN df |->
        IF df[i].Description = m /\ YearMonth(df[i].Date) = LatestMonth THEN df[i].Amount ELSE 0]))
CurrentRows == { i \in DOMAIN df : YearMonth(df[i].Date) = LatestMonth }
CurrentMerchants == { df[i].Description : i \in CurrentRows }
IsTopMerchant(m) == m \in CurrentMerchants /\ \A o \in CurrentMerchants : MerchantSpent(o) <= MerchantSpent(m)
\* the category candidates whose |delta| is at least the amount x
AtLeast(x) == { c \in CategoryCandidates : RatioLeq(Ratio(x, 1), AbsRatio(c.dollar_change)) }

\* C19 as stated: with a baseline, the result holds exactly one info insight,
\* and it names the merchant with the highest total of the current period.
C19_InfoAlwaysReturned ==
    HasBaseline =>
        /\ Cardinality(InfoRows) = 1
        /\ \A i \in InfoRows : IsTopMerchant(insights.rows[i].headline.name)

\* C19: with a baseline, exactly one info candidate is built, naming a
\* merchant with the highest total of the current period; it is in the result
\* exactly when fewer than five category candidates have |delta| at least
\* that total, and the result never holds two.
C19_InfoCandidate ==
    HasBaseline =>
        /\ Cardinality(InfoCandidates) = 1
        /\ \A c \in InfoCandidates :
            /\ IsTopMerchant(c.headline.name)
            /\ c.dollar_amount = MerchantSpent(c.headline.name)
            /\ (\E i \in InfoRows : insights.rows[i] = c) <=> Cardinality(AtLeast(c.dollar_amount)) < 5
        /\ Cardinality(InfoRows) <= 1

\* two merchants in the current period, the one of its first row not the
\* larger, and the info insight returned next to a category candidate
C19_Witness ==
    /\ HasBaseline
    /\ Cardinality(CurrentMerchants) = 2
    /\ \E i \in CurrentRows : (\A j \in CurrentRows : i <= j) /\ ~IsTopMerchant(df[i].Description)
    /\ Cardinality(InfoRows) = 1
    /\ CategoryCandidates # {}

Returned == { insights.rows[i] : i \in DOMAIN insights.rows }

\* C20: the result has at most 5 entries, in order of non-increasing |delta|,
\* and no candidate left out has a larger |delta| than one returned.
C20_TopFive ==
    insights.ran =>
        /\ Len(insights.rows) <= 5
        /\ \A i \in 1..(Len(insights.rows) - 1) :
            RatioLeq(AbsRatio(insights.rows[i + 1].dollar_change), AbsRatio(insights.rows[i].dollar_change))
        /\ Returned \subseteq insights.candidates
        /\ \A out \in insights.candidates \ Returned : \A kept \in Returned :
            RatioLeq(AbsRatio(out.dollar_change), AbsRatio(kept.dollar_change))

\* six candidates, five returned
C20_Witness ==
    /\ insights.ran
    /\ Cardinality(insights.candidates) = 6
    /\ Len(insights.rows) = 5
    /\ \E i \in 1..4 : insights.rows[i].dollar_change # insights.rows[i + 1].dollar_change

----------------------------------------------------------------------------
(* SpecConfig: _get_config resolves the identifier of an account           *)

MaxParts == 3

my_ == <<"m", "y", "_">>
visa == <<"v", "i", "s", "a">>
check == <<"c", "h", "e", "c", "k">>

\* card_key = path.stem.lower(): identifiers are put together from the configured
\* keys and from pieces that are no key
Parts == {default, checking, my_, visa, check}

RECURSIVE Identifiers(_)
Identifiers(n) ==
    IF n = 0 THEN {<<>>}
    ELSE Identifiers(n - 1) \cup {id \o part : id \in Identifiers(n - 1), part \in Parts}

ConfigInit ==
    /\ account \in Identifiers(MaxParts)
    /\ config = NotRun
    /\ cache = NoEntry
    /\ ledger = NotCalled
    /\ writer = Idle
    /\ metrics = NotRun
    /\ NoFiles
    /\ NoMerchant
    /\ NoDates
    /\ NoReports

\* cfg = _get_config(card_key)
GetConfig ==
    /\ ~config.ran
    /\ config' = [ran |-> TRUE, cfg |-> _get_config(account)]
    /\ UNCHANGED <<account, cache, ledger, writer, metrics, fileVars, cleanVars, dateVars, reportVars>>

ConfigNext == GetConfig

SpecConfig == ConfigInit /\ [][ConfigNext]_vars

----------------------------------------------------------------------------
(* Properties of _get_config (SpecConfig)                                   *)

Keys == {ConfigKeys[i] : i \in 1..Len(ConfigKeys)}
NonDefaultKeys == Keys \ {default}

\* C21: the identifier resolves to the entry of the key it equals; otherwise to the
\* entry of a non-default key it contains; otherwise to the default entry.  Every
\* identifier resolves to an entry, and an identifier that contains 'default' and a
\* non-default key resolves to the non-default key.
C21_Resolution ==
    config.ran =>
        /\ config.cfg \in {CARD_CONFIG(k) : k \in Keys}
        /\ account \in Keys => config.cfg = CARD_CONFIG(account)
        /\ (account \notin Keys /\ \E k \in NonDefaultKeys : Contains(account, k))
              => \E k \in NonDefaultKeys : Contains(account, k) /\ config.cfg = CARD_CONFIG(k)
        /\ (account \notin Keys /\ \A k \in NonDefaultKeys : ~Contains(account, k))
              => config.cfg = CARD_CONFIG(default)

\* an identifier that holds 'default' and 'checking', and is no key, was resolved to
\* the checking entry
C21_Witness ==
    /\ config.ran
    /\ account \notin Keys
    /\ Contains(account, default)
    /\ Contains(account, checking)
    /\ config.cfg = CARD_CONFIG(checking)
    /\ config.cfg # CARD_CONFIG(default)

----------------------------------------------------------------------------
(* load_all (utils.py) under st.cache_data                                  *)

EmptyDataError == "EmptyDataError"

\* df["Date"].dt.to_period("M"): the days of the merge model are counted from the
\* first day of a month of 31 days
to_period(day) == (day - 1) \div 31 + 1

\* lines 158-163: YearMonth, the cleaned Description, RecordType where it is missing
Finished(frm) ==
    AsSeq([i \in 1..Len(frm) |->
        [Date |-> frm[i].Date, Description |-> clean_merchant(frm[i].Description),
         Category |-> frm[i].Category, Amount |-> frm[i].Amount, Card |-> frm[i].Card,
         RecordType |-> IF "RecordType" \in DOMAIN frm[i] THEN frm[i].RecordType ELSE "expense",
         YearMonth |-> to_period(frm[i].Date)]])

\* pd.concat([load_card(p) for p in csvs], ignore_index=True)
RECURSIVE ConcatCards(_, _)
ConcatCards(csvs, files) ==
    IF csvs = <<>> THEN <<>>
    ELSE load_card(Head(csvs), files[Head(csvs)]).rows \o ConcatCards(Tail(csvs), files)

\* merged.csv while to_csv has it open: zero bytes until the first flush
ZeroBytes(wr) == wr.busy /\ wr.flushed = 0

\* the body of load_all: files is data/ without merged.csv, mrg is merged.csv, wr the
\* state of a writer that has merged.csv open
load_all(files, mrg, wr) ==
    IF mrg.exists
    THEN IF ZeroBytes(wr) THEN [err |-> EmptyDataError, df |-> <<>>]
         ELSE [err |-> NoError, df |-> Finished(mrg.rows)]
    ELSE LET csvs == SortedPaths({p \in DOMAIN files : Lower(p.ext) = csv})
         IN IF csvs = <<>> THEN [err |-> NoError, df |-> <<>>]
            ELSE IF \E i \in 1..Len(csvs) : load_card(csvs[i], files[csvs[i]]).err # NoError
            THEN LET i == CHOOSE i \in 1..Len(csvs) :
                              /\ load_card(csvs[i], files[csvs[i]]).err # NoError
                              /\ \A j \in 1..(i - 1) : load_card(csvs[j], files[csvs[j]]).err = NoError
                 IN [err |-> load_card(csvs[i], files[csvs[i]]).err, df |-> <<>>]
            ELSE [err |-> NoError, df |-> Finished(ConcatCards(csvs, files))]

NextCall == (ledger.calls + 1) % 2

\* @st.cache_data on a function without arguments: one entry, returned on every call
\* until it is cleared; a call that raises stores nothing
CallResult(res, hit) ==
    [called |-> TRUE, calls |-> NextCall, hit |-> hit, err |-> res.err, df |-> res.df]

\* a page is opened: df = load_all()
LoadAll ==
    /\ IF cache.cached
       THEN /\ ledger' = CallResult([err |-> NoError, df |-> cache.value], TRUE)
            /\ UNCHANGED cache
       ELSE LET res == load_all(data, merged, writer)
            IN /\ ledger' = CallResult(res, FALSE)
               /\ cache' = IF res.err = NoError THEN [cached |-> TRUE, value |-> res.df] ELSE cache
    /\ UNCHANGED <<account, config, writer, metrics, fileVars, cleanVars, dateVars, reportVars>>

\* the Reload button: st.cache_data.clear(); st.rerun(), and the rerun calls load_all
Reload ==
    LET res == load_all(data, merged, writer)
    IN /\ ledger' = CallResult(res, FALSE)
       /\ cache' = IF res.err = NoError THEN [cached |-> TRUE, value |-> res.df] ELSE NoEntry
       /\ UNCHANGED <<account, config, writer, metrics, fileVars, cleanVars, dateVars, reportVars>>

\* the user deletes an export from data/, or replaces it by a newer download
RemoveFile(p) ==
    /\ p \in DOMAIN data
    /\ data' = [q \in DOMAIN data \ {p} |-> data[q]]
    /\ UNCHANGED <<frame, merged, combined, deduped, rerun, cleanVars, dateVars, reportVars, appVars>>

ChangeFile(p, rows) ==
    /\ p \in DOMAIN data
    /\ rows # data[p].rows
    /\ TotalRows(data, DOMAIN data \ {p}) + Len(rows) <= MaxRows
    /\ data' = [data EXCEPT ![p].rows = rows]
    /\ UNCHANGED <<frame, merged, combined, deduped, rerun, cleanVars, dateVars, reportVars, appVars>>

----------------------------------------------------------------------------
(* SpecCache: exports come and go in data/ while pages call load_all        *)

CacheNames == {visa_a, visa_b}

CacheNext ==
    \/ \E p \in CacheNames \ DOMAIN data :
          \E rows \in SeqsUpTo(MergeRecords(p), MaxRows - TotalRows(data, DOMAIN data)) : AddFile(p, rows)
    \/ \E p \in DOMAIN data : RemoveFile(p)
    \/ \E p \in DOMAIN data :
          \E rows \in SeqsUpTo(MergeRecords(p), MaxRows) : ChangeFile(p, rows)
    \/ LoadAll
    \/ Reload

SpecCache == MergeInit /\ [][CacheNext]_vars

\* C23: whenever load_all returns, it returns the ledger of the files as they are at
\* that call, never a result memoized for earlier contents.
C23_MemoFollowsFiles ==
    [][ledger'.calls # ledger.calls => ledger'.df = load_all(data, merged, writer).df]_vars

----------------------------------------------------------------------------
(* SpecWrite: merge.py writes merged.csv while pages call load_all          *)

\* merge.main up to the point where to_csv has opened merged.csv for writing: the
\* file exists and is empty, the sorted frame waits in the writer's buffer
OpenLedger ==
    LET csvs == SortedPaths({p \in DOMAIN data : IsSource(p)})
        failed == \E i \in 1..Len(csvs) : load_card(csvs[i], data[csvs[i]]).err # NoError
        tagged == WithSeq(ConcatFrames(csvs, data))
        kept == DropDuplicates(tagged)
    IN /\ ~writer.busy
       /\ csvs # <<>>
       /\ ~failed
       /\ combined' = tagged
       /\ deduped' = kept
       /\ rerun' = NoRun
       /\ merged' = [exists |-> TRUE, rows |-> <<>>]
       /\ writer' = [busy |-> TRUE, flushed |-> 0, rest |-> Written(kept),
                     old |-> IF merged.exists THEN merged.rows ELSE <<>>]
       /\ UNCHANGED <<data, frame, account, config, cache, ledger, metrics, cleanVars, dateVars, reportVars>>

\* the buffer is flushed when it is full: the header and the next n rows reach the file
Flush(n) ==
    /\ writer.busy
    /\ n \in 1..Len(writer.rest)
    /\ merged' = [exists |-> TRUE, rows |-> merged.rows \o SubSeq(writer.rest, 1, n)]
    /\ writer' = [writer EXCEPT !.flushed = 1, !.rest = SubSeq(writer.rest, n + 1, Len(writer.rest))]
    /\ UNCHANGED <<data, frame, combined, deduped, rerun, account, config, cache, ledger, metrics,
                   cleanVars, dateVars, reportVars>>

\* to_csv returns: what is left in the buffer is written and the file is closed
CloseLedger ==
    /\ writer.busy
    /\ merged' = [exists |-> TRUE, rows |-> merged.rows \o writer.rest]
    /\ writer' = Idle
    /\ UNCHANGED <<data, frame, combined, deduped, rerun, account, config, cache, ledger, metrics,
                   cleanVars, dateVars, reportVars>>

WriteNames == {visa_a, my_checking}

WriteNext ==
    \/ \E p \in WriteNames \ DOMAIN data :
          \E rows \in SeqsUpTo(MergeRecords(p), MaxRows - TotalRows(data, DOMAIN data)) : AddFile(p, rows)
    \/ OpenLedger
    \/ \E n \in 1..MaxRows : Flush(n)
    \/ CloseLedger
    \/ LoadAll
    \/ Reload

SpecWrite == MergeInit /\ [][WriteNext]_vars

\* the ledgers a reader may see while merged.csv exists: the one the last finished
\* run wrote, and the one the running writer is writing, each in full
FullLedgers ==
    IF writer.busy THEN {writer.old, merged.rows \o writer.rest} ELSE {merged.rows}

\* C24: a call of load_all that reads merged.csv returns a fully written ledger, also
\* while merge.main is writing the file.
C24_NoPartialRead ==
    [][(ledger'.calls # ledger.calls /\ ~ledger'.hit /\ merged.exists) =>
          (ledger'.err = NoError /\ \E full \in FullLedgers : ledger'.df = Finished(full))]_vars

----------------------------------------------------------------------------
(* app.py: its own loaders and the metrics of the dashboard                 *)

\* app.py's load_card: CARD_CONFIG.get(card_key, CARD_CONFIG["default"]) with "default"
\* the only key; the rows have no RecordType column
app_load_card(path, raw) ==
    LET cfg == CARD_CONFIG(default)
        card_name == Title(path.stem)
        row(r) == [Date |-> to_datetime(r[cfg.date_col]), Description |-> Strip(r[cfg.desc_col]),
                   Category |-> IF cfg.cat_col \in raw.columns THEN Strip(r[cfg.cat_col]) ELSE Uncategorized,
                   Amount |-> CardAmount(r[cfg.amount_col], cfg), Card |-> card_name]
    IN IF ~({cfg.date_col, cfg.desc_col, cfg.amount_col} \subseteq raw.columns)
       THEN [err |-> KeyError, rows |-> <<>>]
       ELSE IF \E i \in 1..Len(raw.rows) : NoDateIn(raw.rows[i][cfg.date_col])
       THEN [err |-> ValueError, rows |-> <<>>]
       ELSE [err |-> NoError,
             rows |-> SelectSeq(AsSeq([i \in 1..Len(raw.rows) |-> row(raw.rows[i])]), KeptCardRow)]

RECURSIVE AppConcat(_, _)
AppConcat(csvs, files) ==
    IF csvs = <<>> THEN <<>>
    ELSE app_load_card(Head(csvs), files[Head(csvs)]).rows \o AppConcat(Tail(csvs), files)

\* df["YearMonth"] = df["Date"].dt.to_period("M")
WithYearMonth(frm) == AsSeq([i \in 1..Len(frm) |-> frm[i] @@ [YearMonth |-> to_period(frm[i].Date)]])

\* app.py's load_all: merged.csv as it is when it exists, else the concatenated exports
app_load_all(files, mrg) ==
    IF mrg.exists THEN [err |-> NoError, df |-> WithYearMonth(mrg.rows)]
    ELSE LET csvs == SortedPaths({p \in DOMAIN files : Lower(p.ext) = csv})
         IN IF csvs = <<>> THEN [err |-> NoError, df |-> <<>>]
            ELSE IF \E i \in 1..Len(csvs) : app_load_card(csvs[i], files[csvs[i]]).err # NoError
            THEN LET i == CHOOSE i \in 1..Len(csvs) :
                              /\ app_load_card(csvs[i], files[csvs[i]]).err # NoError
                              /\ \A j \in 1..(i - 1) : app_load_card(csvs[j], files[csvs[j]]).err = NoError
                 IN [err |-> app_load_card(csvs[i], files[csvs[i]]).err, df |-> <<>>]
            ELSE [err |-> NoError, df |-> WithYearMonth(AppConcat(csvs, files))]

\* df["Amount"].sum()
RECURSIVE AmountSum(_)
AmountSum(frm) == IF frm = <<>> THEN 0 ELSE Head(frm).Amount + AmountSum(Tail(frm))

InPeriod(frm, period) == SelectSeq(frm, LAMBDA r : r.YearMonth = period)

\* df.groupby("YearMonth")["Amount"].sum()
MonthlyTotals(frm) ==
    [period \in {frm[i].YearMonth : i \in 1..Len(frm)} |-> AmountSum(InPeriod(frm, period))]

Stopped == [ran |-> TRUE, stopped |-> TRUE]

\* one run of app.py with the sidebar filters at their defaults (all cards, the whole
\* date range, all categories): load_all under @st.cache_data, the metrics, and the
\* frame handed to detect_subscriptions
RunApp ==
    LET res == IF cache.cached THEN [err |-> NoError, df |-> cache.value] ELSE app_load_all(data, merged)
    IN /\ cache' = IF res.err = NoError THEN [cached |-> TRUE, value |-> res.df] ELSE cache
       /\ metrics' = IF res.err # NoError \/ res.df = <<>> THEN Stopped
                     ELSE [ran |-> TRUE, stopped |-> FALSE, df |-> res.df,
                           total_spend |-> AmountSum(res.df),
                           monthly_totals |-> MonthlyTotals(res.df),
                           subscriptions_of |-> res.df]
       /\ UNCHANGED <<account, config, ledger, writer, fileVars, cleanVars, dateVars, reportVars>>

AppNames == {visa_a, my_checking}

AppNext ==
    \/ \E p \in AppNames \ DOMAIN data :
          \E rows \in SeqsUpTo(MergeRecords(p), MaxRows - TotalRows(data, DOMAIN data)) : AddFile(p, rows)
    \/ Merge
    \/ RunApp

SpecApp == MergeInit /\ [][AppNext]_vars

RecordTypeOf(r) == IF "RecordType" \in DOMAIN r THEN r.RecordType ELSE "expense"
IsExpense(r) == RecordTypeOf(r) = "expense"
Expenses(frm) == SelectSeq(frm, IsExpense)

\* C25: the total spend, the per-month sums and the input of the subscription
\* detection of the dashboard are taken over the rows with record_type expense only.
C25_ExpenseOnly ==
    (metrics.ran /\ ~metrics.stopped) =>
        /\ metrics.total_spend = AmountSum(Expenses(metrics.df))
        /\ \A period \in DOMAIN metrics.monthly_totals :
              metrics.monthly_totals[period] = AmountSum(InPeriod(Expenses(metrics.df), period))
        /\ \A i \in 1..Len(metrics.subscriptions_of) : IsExpense(metrics.subscriptions_of[i])

----------------------------------------------------------------------------
(* SpecReload: exports are added, merge.py is run, pages load and reload    *)

ReloadNames == {visa_a, VISA_A}

ReloadNext ==
    \/ \E p \in ReloadNames \ DOMAIN data :
          \E rows \in SeqsUpTo(MergeRecords(p), MaxRows - TotalRows(data, DOMAIN data)) : AddFile(p, rows)
    \/ Merge
    \/ LoadAll
    \/ Reload

SpecReload == MergeInit /\ [][ReloadNext]_vars

\* the deduplicated transactions of the source files now in data/, as load_all
\* finishes a frame
DedupOfFiles ==
    LET csvs == SortedPaths({p \in DOMAIN data : IsSource(p)})
    IN Finished(Written(DropDuplicates(WithSeq(ConcatFrames(csvs, data)))))

TimesIn(frm, r) == Cardinality({i \in 1..Len(frm) : frm[i] = r})
RowsOf(frm) == {frm[i] : i \in 1..Len(frm)}
SameRows(a, b) == \A r \in RowsOf(a) \cup RowsOf(b) : TimesIn(a, r) = TimesIn(b, r)

\* C28: a call of load_all that runs its body (the first one, or one after a cache
\* clear) returns exactly the deduplicated transactions of the source files now in
\* data/, whether or not merged.csv exists.
C28_LedgerOfCurrentFiles ==
    [][(ledger'.calls # ledger.calls /\ ~ledger'.hit) =>
          (ledger'.err = NoError /\ SameRows(ledger'.df, DedupOfFiles))]_vars

====
